---- MODULE Spec2Model ----
(***************************************************************************)
(* A model of DenoKvFs (src/mod.ts): a chunked file store over an ordered  *)
(* key-value database.                                                     *)
(*                                                                         *)
(* Scheduling.  The engine runs on a single-threaded event loop: an async  *)
(* method runs without interruption from one `await` to the next.  Each    *)
(* action below is one such stretch of one call: it resumes the call after *)
(* the await it was suspended at, runs the synchronous code that follows,  *)
(* and issues the next awaited KV operation.  A KV operation takes effect  *)
(* when it is issued (the store serves operations in issue order); what a  *)
(* get or list returns is fixed at that moment.  Awaits that touch no      *)
(* shared state (validateAccess, #initKv, the reader of the content        *)
(* stream) are suspension points too; where nothing shared is read or      *)
(* written between two of them they are taken as one.                      *)
(*                                                                         *)
(* Throttling (chunksPerSecond, the one-second windows and the progress    *)
(* callback) only delays a call and reports; it is left at its default     *)
(* (no limit) here.                                                        *)
(***************************************************************************)
EXTENDS Integers, Sequences, FiniteSets, TLC

VARIABLES
    files,          \* KV keys ("deno_kv_fs","files",...path): path -> file record
    chunks,         \* KV keys ("deno_kv_fs","chunks",uri,i): <<uri, i>> -> bytes
    unresolved,     \* KV keys ("deno_kv_fs","unresolved",uri): uri -> stored options
    savingFiles,    \* #savingFiles: uri -> bytes written
    deletingFiles,  \* #deletingFiles: uri -> bytes deleted
    clientsReqsMap, \* #clientsReqsMap: clientId -> count (key absent at zero)
    ops             \* the calls made on the engine, each with its locals and position

vars == <<files, chunks, unresolved, savingFiles, deletingFiles, clientsReqsMap, ops>>

(***************************************************************************)
(* Bounds of the model.                                                    *)
(***************************************************************************)
\* #chunkSize is 65536; the model slices at a small size so that contents of
\* a few bytes span several chunks.
ChunkSize == 2
\* Number.MAX_SAFE_INTEGER, the default of every numeric limit: a value above
\* every count and every size of the model.
Unlimited == 100
\* Number of calls made in one behaviour of the concurrent specification.
NumOps == 2
\* Number of calls made in one behaviour of the serial specification.
NumSeqOps == 2

\* clientId: undefined (the default).
NoClient == -1

(***************************************************************************)
(* Small helpers.                                                          *)
(***************************************************************************)
EmptyMap == [x \in {} |-> 0]

MapSet(m, k, v) == [x \in (DOMAIN m) \cup {k} |-> IF x = k THEN v ELSE m[x]]

MapDel(m, k) == [x \in (DOMAIN m) \ {k} |-> m[x]]

Min(a, b) == IF a < b THEN a ELSE b

RECURSIVE SortedSeq(_)
SortedSeq(S) ==
    IF S = {} THEN <<>>
    ELSE LET m == CHOOSE x \in S : \A y \in S : x <= y
         IN <<m>> \o SortedSeq(S \ {m})

RECURSIVE Concat(_)
Concat(ss) == IF ss = <<>> THEN <<>> ELSE Head(ss) \o Concat(Tail(ss))

RECURSIVE SumLen(_)
SumLen(ss) == IF ss = <<>> THEN 0 ELSE Len(Head(ss)) + SumLen(Tail(ss))

(***************************************************************************)
(* PathCodec.  A path is a sequence of segments, a segment a sequence of   *)
(* characters; a URI component is a sequence of characters.                *)
(***************************************************************************)
encodeChar(c) ==
    IF c = "/" THEN <<"%", "2", "F">>
    ELSE IF c = "%" THEN <<"%", "2", "5">>
    ELSE <<c>>

RECURSIVE encodeURIComponent(_)
encodeURIComponent(s) ==
    IF s = <<>> THEN <<>> ELSE encodeChar(Head(s)) \o encodeURIComponent(Tail(s))

RECURSIVE join(_)
join(parts) ==
    IF parts = <<>> THEN <<>>
    ELSE IF Len(parts) = 1 THEN Head(parts)
    ELSE Head(parts) \o <<"/">> \o join(Tail(parts))

pathToURIComponent(path) ==
    join([i \in 1..Len(path) |-> encodeURIComponent(path[i])])

RECURSIVE split(_)
split(uri) ==
    IF \A i \in 1..Len(uri) : uri[i] # "/" THEN <<uri>>
    ELSE LET k == CHOOSE i \in 1..Len(uri) :
                     uri[i] = "/" /\ \A j \in 1..(i-1) : uri[j] # "/"
         IN <<SubSeq(uri, 1, k-1)>> \o split(SubSeq(uri, k+1, Len(uri)))

RECURSIVE decodeURIComponent(_)
decodeURIComponent(s) ==
    IF s = <<>> THEN <<>>
    ELSE IF Len(s) >= 3 /\ SubSeq(s, 1, 3) = <<"%", "2", "F">>
         THEN <<"/">> \o decodeURIComponent(SubSeq(s, 4, Len(s)))
    ELSE IF Len(s) >= 3 /\ SubSeq(s, 1, 3) = <<"%", "2", "5">>
         THEN <<"%">> \o decodeURIComponent(SubSeq(s, 4, Len(s)))
    ELSE <<Head(s)>> \o decodeURIComponent(Tail(s))

URIComponentToPath(uri) ==
    LET uriParts == split(uri)
    IN [i \in 1..Len(uriParts) |-> decodeURIComponent(uriParts[i])]

(***************************************************************************)
(* Chunker.                                                                *)
(***************************************************************************)
\* TextEncoder.encode: UTF-8.  A string is a sequence of code points; a code
\* point below 128 is one byte, one below 2048 two bytes.
RECURSIVE encode(_)
encode(str) ==
    IF str = <<>> THEN <<>>
    ELSE (IF Head(str) < 128 THEN <<Head(str)>>
          ELSE <<192 + (Head(str) \div 64), 128 + (Head(str) % 64)>>)
         \o encode(Tail(str))

\* #toChunks: Math.ceil(length / #chunkSize) slices.
toChunks(arr) ==
    [i \in 1..((Len(arr) + ChunkSize - 1) \div ChunkSize) |->
        SubSeq(arr, (i - 1) * ChunkSize + 1, Min(i * ChunkSize, Len(arr)))]

\* #getChunkIter on a reader with `rest` still to deliver: reads until the
\* buffer is full or the reader says done; <<chunk, finished, rest after>>.
getChunkIter(rest) ==
    IF Len(rest) >= ChunkSize
    THEN <<SubSeq(rest, 1, ChunkSize), FALSE, SubSeq(rest, ChunkSize + 1, Len(rest))>>
    ELSE <<rest, TRUE, <<>>>>

(***************************************************************************)
(* InFlightRegistry.                                                       *)
(***************************************************************************)
\* getClientReqs: this.#clientsReqsMap[clientId] || 0
getClientReqs(map, clientId) ==
    IF clientId \in DOMAIN map THEN map[clientId] ELSE 0

\* `if (clientId)`: undefined and the number 0 are falsy.
Truthy(clientId) == clientId # NoClient /\ clientId # 0

_incrementClientIdReq(map, clientId) ==
    IF Truthy(clientId)
    THEN MapSet(map, clientId, getClientReqs(map, clientId) + 1)
    ELSE map

_decrementClientIdReq(map, clientId) ==
    IF Truthy(clientId) /\ getClientReqs(map, clientId) # 0
    THEN IF map[clientId] - 1 < 1
         THEN MapDel(map, clientId)
         ELSE MapSet(map, clientId, map[clientId] - 1)
    ELSE map

fileIsSaving(uri) == uri \in DOMAIN savingFiles

fileIsDeleting(uri) == uri \in DOMAIN deletingFiles

\* A status check that finds nothing in flight.
fileStatusIdle(uri) == [status |-> "none", progress |-> 0]

\* #fileStatus: the saving entry wins over the deleting entry.
fileStatus(uri) ==
    IF fileIsSaving(uri)
    THEN [status |-> "saving", progress |-> savingFiles[uri]]
    ELSE IF fileIsDeleting(uri)
    THEN [status |-> "deleting", progress |-> deletingFiles[uri]]
    ELSE [status |-> "none", progress |-> 0]

\* `undefined + n` is NaN: the progress of a deleting entry that was removed
\* while its delete was still running.
NaN == -1

AddProgress(uri, n) ==
    IF uri \in DOMAIN deletingFiles /\ deletingFiles[uri] # NaN
    THEN deletingFiles[uri] + n
    ELSE NaN

(***************************************************************************)
(* Results and records.                                                    *)
(***************************************************************************)
NoResult ==
    [tag |-> "none", status |-> "", msg |-> "", size |-> 0, flags |-> {}]

StatusResult(st) ==
    [tag |-> "status", status |-> st.status, msg |-> "", size |-> st.progress,
     flags |-> {}]

ErrorResult(msg) ==
    [tag |-> "status", status |-> "error", msg |-> msg, size |-> 0, flags |-> {}]

FileResult(f) ==
    [tag |-> "file", status |-> "", msg |-> "", size |-> f.size, flags |-> f.flags]

NullResult == [NoResult EXCEPT !.tag = "null"]

\* The promise of the call rejects: the call throws to its caller.
ThrownResult(msg) == [NoResult EXCEPT !.tag = "thrown", !.msg = msg]

VoidResult == [NoResult EXCEPT !.tag = "void"]

CapMsg == "You can only make a maximum of N concurrent requests."

\* A call: its options, its position (pc), its locals, and what it has
\* returned.  duringSave, idxAtCall, wroteKv and wroteData record history for
\* the properties: whether a save of the same path was running when the call
\* was made, the chunk indices its URI had then, and whether the call has
\* written to the store; parent is the slot of the save whose catch block
\* started the call (0: the caller started it); kvFailed tells that a KV
\* call of the call was rejected.
\* `options.metadata || {}` (line 268): the metadata of a record that was
\* given none.
NoMetadata == "{}"

IdleOp ==
    [kind |-> "none", pc |-> "idle",
     path |-> <<>>, content |-> <<>>, ckind |-> "bytes",
     clientId |-> NoClient, maxReqs |-> Unlimited, maxSize |-> Unlimited,
     access |-> TRUE, metaSize |-> 0, allowed |-> {},
     sweep |-> FALSE, parent |-> 0, kvFailed |-> FALSE,
     pagination |-> FALSE, cursor |-> <<>>, kvCount |-> 0, pgCount |-> 0,
     lastKey |-> <<>>, dirSize |-> 0, cursorOut |-> <<>>,
     chunksPerSecond |-> Unlimited, chunksCount |-> 0, time |-> 0, clock |-> 0,
     sleeps |-> 0, metadata |-> NoMetadata, limit |-> 0, start |-> 0,
     chunkList |-> <<>>, rest |-> <<>>, finished |-> FALSE, lastChunk |-> <<>>,
     sizeBytes |-> 0, totalCount |-> 0, flags |-> {},
     iter |-> <<>>, got |-> <<>>, out |-> <<>>, stream |-> "none", msg |-> "",
     result |-> NoResult,
     duringSave |-> FALSE, idxAtCall |-> {}, wroteKv |-> FALSE, wroteData |-> FALSE]

Uri(r) == pathToURIComponent(r.path)

\* The bytes a save is given: a string is UTF-8 encoded (line 253).
Bytes(r) == IF r.ckind = "string" THEN encode(r.content) ELSE r.content

\* The value of an unresolved marker: the options without content and
\* validateAccess.
Marker(r) == [path |-> r.path, clientId |-> r.clientId, maxReqs |-> r.maxReqs]

Running(r) == r.pc \notin {"idle", "done"}

SaveInProgress(path, o) ==
    \E o2 \in (DOMAIN ops) \ {o} :
        ops[o2].kind = "save" /\ ops[o2].path = path /\ Running(ops[o2])

\* A new call on slot o with the given option fields.
NewOp(o, kind, in) ==
    [IdleOp EXCEPT !.kind = kind, !.path = in.path, !.content = in.content,
                   !.ckind = in.ckind, !.clientId = in.clientId,
                   !.maxReqs = in.maxReqs, !.maxSize = in.maxSize,
                   !.access = in.access,
                   !.metaSize = IF "metaSize" \in DOMAIN in THEN in.metaSize ELSE 0,
                   !.allowed = IF "allowed" \in DOMAIN in THEN in.allowed ELSE {},
                   !.pagination = IF "pagination" \in DOMAIN in THEN in.pagination
                                  ELSE FALSE,
                   !.cursor = IF "cursor" \in DOMAIN in THEN in.cursor ELSE <<>>,
                   !.chunksPerSecond = IF "chunksPerSecond" \in DOMAIN in
                                       THEN in.chunksPerSecond ELSE Unlimited,
                   !.metadata = IF "metadata" \in DOMAIN in THEN in.metadata
                                ELSE NoMetadata,
                   !.duringSave = SaveInProgress(in.path, o),
                   !.idxAtCall = {k[2] : k \in {x \in DOMAIN chunks :
                                      x[1] = pathToURIComponent(in.path)}}]

(***************************************************************************)
(* KvPager.  The chunk scans of the model return fewer entries than one    *)
(* batch of the store, so the first next() reads them all.                 *)
(***************************************************************************)
Entries(uri, idxs) ==
    LET order == SortedSeq(idxs)
    IN [k \in 1..Len(order) |->
           [key |-> <<uri, order[k]>>, value |-> chunks[<<uri, order[k]>>]]]

ChunkIdx(uri) == {k[2] : k \in {x \in DOMAIN chunks : x[1] = uri}}

\* A scan that misses the first chunk.
listPrefixSkip(uri) == Entries(uri, ChunkIdx(uri) \ {1})

\* {prefix: ["deno_kv_fs", "chunks", uri]}
listPrefix(uri) == Entries(uri, ChunkIdx(uri))

\* A selector that starts one key after nextChunkIndex.
InRetractRangeLate(i, nextChunkIndex) == i > nextChunkIndex /\ i < Unlimited

\* The selector of #retract.
InRetractRange(i, nextChunkIndex) == i >= nextChunkIndex /\ i < Unlimited

\* {start: [..., uri, nextChunkIndex], end: [..., uri, MAX_SAFE_INTEGER]}
listRange(uri, nextChunkIndex) ==
    Entries(uri, {i \in ChunkIdx(uri) : InRetractRange(i, nextChunkIndex)})

(***************************************************************************)
(* save (lines 177-293), #startSaving, #endSaving, #saveFromUint8Array,    *)
(* #saveFromReader, #retract.                                              *)
(***************************************************************************)
\* 60 * 1024 (line 187).
MetaLimit == 61440

\* name.split(".").pop() (line 216): what follows the last dot, or the whole
\* name when it has no dot.
RECURSIVE fileExt(_)
fileExt(name) ==
    IF \A i \in 1..Len(name) : name[i] # "." THEN name
    ELSE fileExt(Tail(name))

\* An extension filter that lets every name through.
ExtIgnored(r) == TRUE

\* Lines 215-217: no filter, or the extension of the last segment is listed.
ExtAllowed(r) == r.allowed = {} \/ fileExt(r.path[Len(r.path)]) \in r.allowed

\* Lines 178-202: the in-flight check, the metadata size check (metaSize is
\* the length of the encoded JSON, 0 when no metadata is given), then
\* `await validateAccess`.
SaveCall(o, in) ==
    /\ ops[o].pc = "idle"
    /\ LET r  == NewOp(o, "save", in)
           st == fileStatus(Uri(r))
       IN ops' = [ops EXCEPT ![o] =
                     IF st.status # "none"
                     THEN [r EXCEPT !.pc = "done", !.result = StatusResult(st)]
                     ELSE IF r.metaSize > MetaLimit
                     THEN [r EXCEPT !.pc = "done",
                              !.result = ErrorResult("Metadata exceeds 60KB limit")]
                     ELSE [r EXCEPT !.pc = "s_validate"]]
    /\ UNCHANGED <<files, chunks, unresolved, savingFiles, deletingFiles, clientsReqsMap>>

\* Lines 202-213: validateAccess returned false.
SaveForbidden(o) ==
    /\ ops[o].pc = "s_validate"
    /\ ~ops[o].access
    /\ ops' = [ops EXCEPT ![o].pc = "done", ![o].result = ErrorResult("Forbidden")]
    /\ UNCHANGED <<files, chunks, unresolved, savingFiles, deletingFiles, clientsReqsMap>>

\* Lines 215-230: the extension is not in allowedExtensions.
SaveBadExtension(o) ==
    /\ ops[o].pc = "s_validate"
    /\ ops[o].access
    /\ ~ExtAllowed(ops[o])
    /\ ops' = [ops EXCEPT ![o].pc = "done",
                          ![o].result = ErrorResult("The file extension is not allowed")]
    /\ UNCHANGED <<files, chunks, unresolved, savingFiles, deletingFiles, clientsReqsMap>>

\* A save that starts without putting the marker.
SaveStartUnmarked(o) ==
    /\ ops[o].pc = "s_validate"
    /\ ops[o].access
    /\ ExtAllowed(ops[o])
    /\ clientsReqsMap' = _incrementClientIdReq(clientsReqsMap, ops[o].clientId)
    /\ savingFiles' = MapSet(savingFiles, Uri(ops[o]), 0)
    /\ ops' = [ops EXCEPT ![o].pc = "s_marker", ![o].wroteKv = TRUE]
    /\ UNCHANGED <<files, chunks, unresolved, deletingFiles>>

\* Lines 231-232 and #startSaving (590-598): take the client slot, enter the
\* saving map, put the unresolved marker.
SaveStart(o) ==
    /\ ops[o].pc = "s_validate"
    /\ ops[o].access
    /\ ExtAllowed(ops[o])
    /\ clientsReqsMap' = _incrementClientIdReq(clientsReqsMap, ops[o].clientId)
    /\ savingFiles' = MapSet(savingFiles, Uri(ops[o]), 0)
    /\ unresolved' = MapSet(unresolved, Uri(ops[o]), Marker(ops[o]))
    /\ ops' = [ops EXCEPT ![o].pc = "s_marker", ![o].wroteKv = TRUE]
    /\ UNCHANGED <<files, chunks, deletingFiles>>

CapExceeded(r) == getClientReqs(clientsReqsMap, r.clientId) > r.maxReqs

\* Lines 233-236: over the cap; #endSaving deletes the marker.
SaveOverCap(o) ==
    /\ ops[o].pc = "s_marker"
    /\ CapExceeded(ops[o])
    /\ unresolved' = MapDel(unresolved, Uri(ops[o]))
    /\ ops' = [ops EXCEPT ![o].pc = "s_rejecting"]
    /\ UNCHANGED <<files, chunks, savingFiles, deletingFiles, clientsReqsMap>>

\* #endSaving after the marker delete (609-610), then lines 237-246.
SaveRejected(o) ==
    /\ ops[o].pc = "s_rejecting"
    /\ savingFiles' = MapDel(savingFiles, Uri(ops[o]))
    /\ clientsReqsMap' = _decrementClientIdReq(clientsReqsMap, ops[o].clientId)
    /\ ops' = [ops EXCEPT ![o].pc = "done", ![o].result = ErrorResult(CapMsg)]
    /\ UNCHANGED <<files, chunks, unresolved, deletingFiles>>

\* The head of the loop of #saveFromUint8Array (904-913): the next chunk of
\* the slices, unless the bytes written so far are over the size cap.
ArrayHead(r) ==
    IF r.chunkList = <<>>
    THEN [put |-> FALSE, r |-> r]
    ELSE IF r.sizeBytes > r.maxSize
    THEN [put |-> FALSE, r |-> [r EXCEPT !.flags = {"incomplete"}]]
    ELSE [put |-> TRUE,
          r |-> [r EXCEPT !.lastChunk = Head(r.chunkList),
                          !.chunkList = Tail(r.chunkList),
                          !.totalCount = @ + 1]]

\* The head of the loop of #saveFromReader (847-858): while the reader has
\* not said done, fill one chunk, then check the size cap.
ReaderHead(r) ==
    IF r.finished
    THEN [put |-> FALSE, r |-> r]
    ELSE LET it == getChunkIter(r.rest)
             r1 == [r EXCEPT !.rest = it[3], !.finished = it[2]]
         IN IF r.sizeBytes > r.maxSize
            THEN [put |-> FALSE, r |-> [r1 EXCEPT !.flags = {"incomplete"}]]
            ELSE [put |-> TRUE,
                  r |-> [r1 EXCEPT !.lastChunk = it[1], !.totalCount = @ + 1]]

\* One turn of the save loop for the call in state r: put the next chunk, or
\* leave the loop and start #retract at totalCount + 1 (875, 930).
SaveLoop(o, r) ==
    LET h == IF r.ckind = "stream" THEN ReaderHead(r) ELSE ArrayHead(r)
    IN IF h.put
       THEN /\ chunks' = MapSet(chunks, <<Uri(r), h.r.totalCount>>, h.r.lastChunk)
            /\ ops' = [ops EXCEPT ![o] = [h.r EXCEPT !.pc = "s_chunk",
                                                      !.wroteData = TRUE]]
       ELSE /\ chunks' = chunks
            /\ ops' = [ops EXCEPT ![o] =
                          [h.r EXCEPT !.pc = "s_retract",
                                      !.iter = listRange(Uri(r), h.r.totalCount + 1)]]

\* Lines 248-265: admitted; a string is encoded, a byte array is sliced, a
\* stream gets a reader; the first turn of the loop.
SaveAdmit(o) ==
    /\ ops[o].pc = "s_marker"
    /\ ~CapExceeded(ops[o])
    /\ SaveLoop(o, [ops[o] EXCEPT
                      !.chunkList = IF ops[o].ckind = "stream" THEN <<>>
                                    ELSE toChunks(Bytes(ops[o])),
                      !.rest = IF ops[o].ckind = "stream" THEN ops[o].content
                               ELSE <<>>])
    /\ UNCHANGED <<files, unresolved, savingFiles, deletingFiles, clientsReqsMap>>

\* #oneSecondDelayMillis (line 76), in clock ticks of half a second.  Each
\* call has its own clock, which starts when the call's saver starts.
OneSecond == 2

\* How long a chunk put can take.  With the default chunksPerSecond the
\* throttle never sleeps and the clock is not followed.
PutTimes(r) == IF r.chunksPerSecond = Unlimited THEN {0} ELSE 0..OneSecond

\* `chunksCount > params.chunksPerSecond` (863, 918).
OverRate(chunksCount, chunksPerSecond) == chunksCount > chunksPerSecond

\* The throttle after a chunk put that took dt (861-873, 916-928).
Throttle(r, dt) ==
    LET now == r.clock + dt
    IN IF now - r.time < OneSecond
       THEN [sleep |-> OverRate(r.chunksCount + 1, r.chunksPerSecond),
             r |-> [r EXCEPT !.clock = now, !.chunksCount = @ + 1]]
       ELSE [sleep |-> FALSE,
             r |-> [r EXCEPT !.clock = now, !.chunksCount = 0, !.time = now]]

\* After a chunk put (859-873, 914-928): count its bytes, publish the
\* progress, throttle, next turn.
SaveChunk(o) ==
    /\ ops[o].pc = "s_chunk"
    /\ \E dt \in PutTimes(ops[o]) :
          LET r == [ops[o] EXCEPT !.sizeBytes = @ + Len(ops[o].lastChunk)]
              t == Throttle(r, dt)
          IN /\ savingFiles' = MapSet(savingFiles, Uri(r), r.sizeBytes)
             /\ IF t.sleep
                THEN /\ chunks' = chunks
                     /\ ops' = [ops EXCEPT ![o] = [t.r EXCEPT !.pc = "s_sleep"]]
                ELSE SaveLoop(o, t.r)
    /\ UNCHANGED <<files, unresolved, deletingFiles, clientsReqsMap>>

\* `await delay(1000)` is over (864-867, 919-922): a new window, next turn.
SaveWake(o) ==
    /\ ops[o].pc = "s_sleep"
    /\ SaveLoop(o, [ops[o] EXCEPT !.clock = @ + OneSecond,
                                  !.time = ops[o].clock + OneSecond,
                                  !.chunksCount = 0,
                                  !.sleeps = @ + 1])
    /\ UNCHANGED <<files, unresolved, savingFiles, deletingFiles, clientsReqsMap>>

FileRecord(r) ==
    [path |-> r.path, URIComponent |-> Uri(r), metadata |-> r.metadata,
     size |-> r.sizeBytes, flags |-> r.flags]

\* #retract (648-651): delete the next entry of the scan.
SaveRetract(o) ==
    /\ ops[o].pc = "s_retract"
    /\ ops[o].iter # <<>>
    /\ chunks' = MapDel(chunks, Head(ops[o].iter).key)
    /\ ops' = [ops EXCEPT ![o].iter = Tail(@), ![o].wroteData = TRUE]
    /\ UNCHANGED <<files, unresolved, savingFiles, deletingFiles, clientsReqsMap>>

\* The scan of #retract is over; lines 266-272 put the file record.
SavePutFile(o) ==
    /\ ops[o].pc = "s_retract"
    /\ ops[o].iter = <<>>
    /\ files' = MapSet(files, ops[o].path, FileRecord(ops[o]))
    /\ ops' = [ops EXCEPT ![o].pc = "s_file", ![o].wroteData = TRUE]
    /\ UNCHANGED <<chunks, unresolved, savingFiles, deletingFiles, clientsReqsMap>>

\* Line 273, #endSaving (603-608): delete the marker.
SaveFinalize(o) ==
    /\ ops[o].pc = "s_file"
    /\ unresolved' = MapDel(unresolved, Uri(ops[o]))
    /\ ops' = [ops EXCEPT ![o].pc = "s_end"]
    /\ UNCHANGED <<files, chunks, savingFiles, deletingFiles, clientsReqsMap>>

\* #endSaving (609-610), line 274: leave the saving map, release the slot,
\* return the record.
SaveEnd(o) ==
    /\ ops[o].pc = "s_end"
    /\ savingFiles' = MapDel(savingFiles, Uri(ops[o]))
    /\ clientsReqsMap' = _decrementClientIdReq(clientsReqsMap, ops[o].clientId)
    /\ ops' = [ops EXCEPT ![o].pc = "done",
                          ![o].result = FileResult(FileRecord(ops[o]))]
    /\ UNCHANGED <<files, chunks, unresolved, deletingFiles>>

(***************************************************************************)
(* delete (lines 419-478), #startDeleting, #endDeleting, #deleteChunks.    *)
(***************************************************************************)
\* Lines 420-427: the in-flight check, then `await validateAccess` (or, for
\* stored options, which hold no validateAccess, `await #initKv`).
DeleteEntry(o, in) ==
    LET r  == NewOp(o, "delete", in)
        st == fileStatus(Uri(r))
    IN IF st.status # "none"
       THEN [r EXCEPT !.pc = "done", !.result = StatusResult(st)]
       ELSE [r EXCEPT !.pc = "d_validate"]

DeleteCall(o, in) ==
    /\ ops[o].pc = "idle"
    /\ ops' = [ops EXCEPT ![o] = DeleteEntry(o, in)]
    /\ UNCHANGED <<files, chunks, unresolved, savingFiles, deletingFiles, clientsReqsMap>>

\* Lines 427-437.
DeleteForbidden(o) ==
    /\ ops[o].pc = "d_validate"
    /\ ~ops[o].access
    /\ ops' = [ops EXCEPT ![o].pc = "done", ![o].result = ErrorResult("Forbidden")]
    /\ UNCHANGED <<files, chunks, unresolved, savingFiles, deletingFiles, clientsReqsMap>>

\* Lines 440-441 and #startDeleting (612-620).
DeleteStart(o) ==
    /\ ops[o].pc = "d_validate"
    /\ ops[o].access
    /\ clientsReqsMap' = _incrementClientIdReq(clientsReqsMap, ops[o].clientId)
    /\ deletingFiles' = MapSet(deletingFiles, Uri(ops[o]), 0)
    /\ unresolved' = MapSet(unresolved, Uri(ops[o]), Marker(ops[o]))
    /\ ops' = [ops EXCEPT ![o].pc = "d_marker", ![o].wroteKv = TRUE]
    /\ UNCHANGED <<files, chunks, savingFiles>>

\* Lines 442-446: over the cap; #endDeleting (resolved = true) deletes the
\* marker.
DeleteOverCap(o) ==
    /\ ops[o].pc = "d_marker"
    /\ CapExceeded(ops[o])
    /\ unresolved' = MapDel(unresolved, Uri(ops[o]))
    /\ ops' = [ops EXCEPT ![o].pc = "d_rejecting"]
    /\ UNCHANGED <<files, chunks, savingFiles, deletingFiles, clientsReqsMap>>

\* #endDeleting after the marker delete (631-632), then lines 447-456.
DeleteRejected(o) ==
    /\ ops[o].pc = "d_rejecting"
    /\ deletingFiles' = MapDel(deletingFiles, Uri(ops[o]))
    /\ clientsReqsMap' = _decrementClientIdReq(clientsReqsMap, ops[o].clientId)
    /\ ops' = [ops EXCEPT ![o].pc = "done", ![o].result = ErrorResult(CapMsg)]
    /\ UNCHANGED <<files, chunks, unresolved, savingFiles>>

\* A delete that goes on to the chunks and leaves the file record.
DeleteAdmitKeep(o) ==
    /\ ops[o].pc = "d_marker"
    /\ ~CapExceeded(ops[o])
    /\ ops' = [ops EXCEPT ![o].pc = "d_file", ![o].wroteData = TRUE]
    /\ UNCHANGED <<files, chunks, unresolved, savingFiles, deletingFiles, clientsReqsMap>>

\* Line 458: admitted; delete the file record first.
DeleteAdmit(o) ==
    /\ ops[o].pc = "d_marker"
    /\ ~CapExceeded(ops[o])
    /\ files' = MapDel(files, ops[o].path)
    /\ ops' = [ops EXCEPT ![o].pc = "d_file", ![o].wroteData = TRUE]
    /\ UNCHANGED <<chunks, unresolved, savingFiles, deletingFiles, clientsReqsMap>>

\* #deleteChunks (674-687): scan the chunks of the URI.
DeleteScan(o) ==
    /\ ops[o].pc = "d_file"
    /\ ops' = [ops EXCEPT ![o].pc = "d_list", ![o].iter = listPrefix(Uri(ops[o]))]
    /\ UNCHANGED <<files, chunks, unresolved, savingFiles, deletingFiles, clientsReqsMap>>

\* One turn of the loop of #deleteChunks for the call in state r: delete the
\* next entry (688), or, the scan over, line 460: #endDeleting deletes the
\* marker.
DeleteLoop(o, r) ==
    IF r.iter # <<>>
    THEN /\ chunks' = MapDel(chunks, Head(r.iter).key)
         /\ unresolved' = unresolved
         /\ ops' = [ops EXCEPT ![o] = [r EXCEPT !.pc = "d_chunk",
                                                !.lastChunk = Head(r.iter).value,
                                                !.iter = Tail(r.iter),
                                                !.wroteData = TRUE]]
    ELSE /\ chunks' = chunks
         /\ unresolved' = MapDel(unresolved, Uri(r))
         /\ ops' = [ops EXCEPT ![o] = [r EXCEPT !.pc = "d_end"]]

DeleteListed(o) ==
    /\ ops[o].pc = "d_list"
    /\ DeleteLoop(o, ops[o])
    /\ UNCHANGED <<files, savingFiles, deletingFiles, clientsReqsMap>>

\* Line 689: after a chunk delete, add its length to the progress.
DeleteChunk(o) ==
    /\ ops[o].pc = "d_chunk"
    /\ deletingFiles' = MapSet(deletingFiles, Uri(ops[o]),
                               AddProgress(Uri(ops[o]), Len(ops[o].lastChunk)))
    /\ DeleteLoop(o, ops[o])
    /\ UNCHANGED <<files, savingFiles, clientsReqsMap>>

\* #endDeleting (631-632): leave the deleting map, release the slot.
DeleteEnd(o) ==
    /\ ops[o].pc = "d_end"
    /\ deletingFiles' = MapDel(deletingFiles, Uri(ops[o]))
    /\ clientsReqsMap' = _decrementClientIdReq(clientsReqsMap, ops[o].clientId)
    /\ ops' = [ops EXCEPT ![o].pc = "done", ![o].result = VoidResult]
    /\ UNCHANGED <<files, chunks, unresolved, savingFiles>>

(***************************************************************************)
(* read (lines 294-324) and the content stream of #contentToStream.        *)
(***************************************************************************)
ReadCall(o, in) ==
    /\ ops[o].pc = "idle"
    /\ LET r  == NewOp(o, "read", in)
           st == fileStatus(Uri(r))
       IN ops' = [ops EXCEPT ![o] =
                     IF st.status # "none"
                     THEN [r EXCEPT !.pc = "done", !.result = StatusResult(st)]
                     ELSE [r EXCEPT !.pc = "r_validate"]]
    /\ UNCHANGED <<files, chunks, unresolved, savingFiles, deletingFiles, clientsReqsMap>>

ReadForbidden(o) ==
    /\ ops[o].pc = "r_validate"
    /\ ~ops[o].access
    /\ ops' = [ops EXCEPT ![o].pc = "done", ![o].result = ErrorResult("Forbidden")]
    /\ UNCHANGED <<files, chunks, unresolved, savingFiles, deletingFiles, clientsReqsMap>>

\* Lines 314-316: get the file record.
ReadGet(o) ==
    /\ ops[o].pc = "r_validate"
    /\ ops[o].access
    /\ ops' = [ops EXCEPT ![o].pc = "r_get",
                          ![o].got = IF ops[o].path \in DOMAIN files
                                     THEN <<files[ops[o].path]>> ELSE <<>>]
    /\ UNCHANGED <<files, chunks, unresolved, savingFiles, deletingFiles, clientsReqsMap>>

\* Lines 317-323: null, or the record with its lazy content stream.
ReadReturn(o) ==
    /\ ops[o].pc = "r_get"
    /\ ops' = [ops EXCEPT ![o] =
                  IF ops[o].got = <<>>
                  THEN [@ EXCEPT !.pc = "done", !.result = NullResult]
                  ELSE [@ EXCEPT !.pc = "r_ready", !.stream = "readable",
                                 !.result = FileResult(ops[o].got[1])]]
    /\ UNCHANGED <<files, chunks, unresolved, savingFiles, deletingFiles, clientsReqsMap>>

\* The first pull (734-747): take the client slot, check the cap, start the
\* scan of the chunks.
PullFirst(o) ==
    /\ ops[o].pc = "r_ready"
    /\ getClientReqs(_incrementClientIdReq(clientsReqsMap, ops[o].clientId),
                     ops[o].clientId) <= ops[o].maxReqs
    /\ clientsReqsMap' = _incrementClientIdReq(clientsReqsMap, ops[o].clientId)
    /\ ops' = [ops EXCEPT ![o].pc = "r_pull", ![o].iter = listPrefix(Uri(ops[o]))]
    /\ UNCHANGED <<files, chunks, unresolved, savingFiles, deletingFiles>>

\* The first pull finds the client over the cap: the throw is caught (769-
\* 771), the slot released, the stream errored.
PullOverCap(o) ==
    /\ ops[o].pc = "r_ready"
    /\ getClientReqs(_incrementClientIdReq(clientsReqsMap, ops[o].clientId),
                     ops[o].clientId) > ops[o].maxReqs
    /\ clientsReqsMap' =
           _decrementClientIdReq(
               _incrementClientIdReq(clientsReqsMap, ops[o].clientId),
               ops[o].clientId)
    /\ ops' = [ops EXCEPT ![o].pc = "done", ![o].stream = "errored",
                          ![o].msg = CapMsg]
    /\ UNCHANGED <<files, chunks, unresolved, savingFiles, deletingFiles>>

\* A pull with an entry (747-750): controller.enqueue(value).  The
\* controller of a byte stream rejects a view of length zero with a
\* TypeError; the catch (769-771) releases the slot and errors the stream.
PullDeliver(o) ==
    /\ ops[o].pc \in {"r_pull", "r_open"}
    /\ ops[o].iter # <<>>
    /\ LET chunk == Head(ops[o].iter).value
       IN IF Len(chunk) = 0
          THEN /\ clientsReqsMap' =
                      _decrementClientIdReq(clientsReqsMap, ops[o].clientId)
               /\ ops' = [ops EXCEPT ![o].pc = "done", ![o].stream = "errored",
                                     ![o].msg = "TypeError"]
          ELSE /\ clientsReqsMap' = clientsReqsMap
               /\ ops' = [ops EXCEPT ![o].pc = "r_open",
                                     ![o].out = @ \o chunk,
                                     ![o].iter = Tail(@)]
    /\ UNCHANGED <<files, chunks, unresolved, savingFiles, deletingFiles>>

\* A pull at the end of the scan (751-757): release the slot, close.
PullDone(o) ==
    /\ ops[o].pc \in {"r_pull", "r_open"}
    /\ ops[o].iter = <<>>
    /\ clientsReqsMap' = _decrementClientIdReq(clientsReqsMap, ops[o].clientId)
    /\ ops' = [ops EXCEPT ![o].pc = "done", ![o].stream = "closed"]
    /\ UNCHANGED <<files, chunks, unresolved, savingFiles, deletingFiles>>

\* The consumer cancels the stream between two pulls.  The underlying source
\* (730-774) has no cancel method: nothing of the engine runs.
Cancel(o) ==
    /\ ops[o].pc \in {"r_ready", "r_open"}
    /\ ops' = [ops EXCEPT ![o].pc = "done", ![o].stream = "cancelled"]
    /\ UNCHANGED <<files, chunks, unresolved, savingFiles, deletingFiles, clientsReqsMap>>

(***************************************************************************)
(* The concurrent specification: NumOps calls of save, delete and read,    *)
(* started at any moment and interleaved at their awaits, on a store that  *)
(* is empty or holds one file left by an earlier save.                     *)
(***************************************************************************)
PathA == << <<"a">> >>

PathB == << <<"d">>, <<"b", "/", "c">> >>

Paths == {PathA, PathB}

\* The client of a call: its clientId and the maxClientIdConcurrentReqs it
\* passes.  The defaults, the numeric id 0 and the numeric id 7.
ClientConfigs ==
    { [clientId |-> NoClient, maxReqs |-> Unlimited],
      [clientId |-> 0, maxReqs |-> 1],
      [clientId |-> 7, maxReqs |-> 1] }

\* The contents saved: a one-byte array, a stream of exactly one full chunk.
ConcContents ==
    { [content |-> <<4>>, ckind |-> "bytes"],
      [content |-> [i \in 1..ChunkSize |-> 5], ckind |-> "stream"] }

\* The content of the file an earlier save left: one byte more than a chunk.
OldContent == [i \in 1..(ChunkSize + 1) |-> i]

Input(path, c, cl, maxSize, access) ==
    [path |-> path, content |-> c.content, ckind |-> c.ckind,
     clientId |-> cl.clientId, maxReqs |-> cl.maxReqs,
     maxSize |-> maxSize, access |-> access]

NoContent == [content |-> <<>>, ckind |-> "bytes"]

SaveInputs ==
    {Input(p, c, cl, Unlimited, TRUE) :
        p \in Paths, c \in ConcContents, cl \in ClientConfigs}

ReadInputs ==
    {Input(p, NoContent, cl, Unlimited, TRUE) : p \in Paths, cl \in ClientConfigs}

OpIds == 1..NumOps

\* Calls take the slots in order.
NextSlot(o) == \A o2 \in 1..(o - 1) : ops[o2].pc # "idle"

\* The store after save({path, content: bytes}) on an empty store.
StoredFiles(path, bytes) ==
    MapSet(EmptyMap, path,
           [path |-> path, URIComponent |-> pathToURIComponent(path),
            metadata |-> NoMetadata, size |-> Len(bytes), flags |-> {}])

StoredChunks(path, bytes) ==
    [k \in {<<pathToURIComponent(path), i>> : i \in 1..Len(toChunks(bytes))} |->
        toChunks(bytes)[k[2]]]

Init ==
    /\ \E old \in {<<>>, OldContent} :
          /\ files = IF old = <<>> THEN EmptyMap ELSE StoredFiles(PathA, old)
          /\ chunks = IF old = <<>> THEN EmptyMap ELSE StoredChunks(PathA, old)
    /\ unresolved = EmptyMap
    /\ savingFiles = EmptyMap
    /\ deletingFiles = EmptyMap
    /\ clientsReqsMap = EmptyMap
    /\ ops = [o \in OpIds |-> IdleOp]

Step(o) ==
    \/ SaveStart(o)
    \/ SaveOverCap(o)
    \/ SaveRejected(o)
    \/ SaveAdmit(o)
    \/ SaveChunk(o)
    \/ SaveRetract(o)
    \/ SavePutFile(o)
    \/ SaveFinalize(o)
    \/ SaveEnd(o)
    \/ DeleteStart(o)
    \/ DeleteOverCap(o)
    \/ DeleteRejected(o)
    \/ DeleteAdmit(o)
    \/ DeleteScan(o)
    \/ DeleteListed(o)
    \/ DeleteChunk(o)
    \/ DeleteEnd(o)
    \/ ReadGet(o)
    \/ ReadReturn(o)
    \/ PullFirst(o)
    \/ PullOverCap(o)
    \/ PullDeliver(o)
    \/ PullDone(o)
    \/ Cancel(o)

Next ==
    \/ \E o \in OpIds, in \in SaveInputs : NextSlot(o) /\ SaveCall(o, in)
    \/ \E o \in OpIds, in \in ReadInputs : NextSlot(o) /\ DeleteCall(o, in)
    \/ \E o \in OpIds, in \in ReadInputs : NextSlot(o) /\ ReadCall(o, in)
    \/ \E o \in OpIds : Step(o)

Spec == Init /\ [][Next]_vars

(***************************************************************************)
(* Properties of the concurrent specification.                             *)
(***************************************************************************)
KnownUris ==
    (DOMAIN unresolved) \cup (DOMAIN savingFiles) \cup (DOMAIN deletingFiles)
    \cup {k[1] : k \in DOMAIN chunks}

\* C2.  Mutual exclusion: a read, save or delete of p that is called while a
\* save of p has been called and has not returned yet returns a FileStatus
\* with status "saving" and performs no KV write.
C2_MutualExclusion ==
    \A o \in DOMAIN ops :
        ops[o].duringSave =>
            /\ ops[o].result.tag # "none" =>
                   ops[o].result.tag = "status" /\ ops[o].result.status = "saving"
            /\ ~ops[o].wroteKv

\* C3.  No URI is in the saving map and in the deleting map at once.
C3_NeverSavingAndDeleting ==
    \A uri \in KnownUris : ~(fileIsSaving(uri) /\ fileIsDeleting(uri))

\* C6.  Every file record of the store has chunks at the contiguous indices
\* 1..K of its URI, and their lengths sum to the record's size.
C6_RecordMatchesChunks ==
    \A path \in DOMAIN files :
        LET uri == pathToURIComponent(path)
            idx == ChunkIdx(uri)
        IN /\ idx = 1..Cardinality(idx)
           /\ SumLen([i \in 1..Cardinality(idx) |-> chunks[<<uri, i>>]])
                  = files[path].size

\* C7.  The unresolved marker of a URI exists if and only if the URI is in
\* the saving map or in the deleting map.
C7_MarkerIffInFlight ==
    \A uri \in KnownUris :
        (uri \in DOMAIN unresolved) <=> (fileIsSaving(uri) \/ fileIsDeleting(uri))

\* A call that has taken its client slot and not released it: a save or
\* delete between #startSaving/#startDeleting and the end of #endSaving/
\* #endDeleting, a content stream between its first pull and its end.
HoldsSlot(r) ==
    r.pc \in {"s_marker", "s_rejecting", "s_chunk", "s_retract", "s_file", "s_end",
              "d_marker", "d_rejecting", "d_file", "d_list", "d_chunk", "d_end",
              "r_pull", "r_open"}

ClientIds == {r.clientId : r \in {ops[o] : o \in DOMAIN ops}} \ {NoClient}

\* C8.  For every client id c, getClientReqs(c) is the number of saves,
\* deletes and started read streams of c that have not finished (a cancelled
\* stream has finished); so it is 0 once every operation of c is over.
C8_ClientReqsCount ==
    \A c \in ClientIds :
        getClientReqs(clientsReqsMap, c) =
            Cardinality({o \in DOMAIN ops : ops[o].clientId = c /\ HoldsSlot(ops[o])})

\* A call past its cap check and still running.
Admitted(r) ==
    r.pc \in {"s_chunk", "s_retract", "s_file", "s_end",
              "d_file", "d_list", "d_chunk", "d_end", "r_pull", "r_open"}

\* C9.  Concurrency cap: at no time are more than m = maxClientIdConcurrentReqs
\* operations of a client past the cap check and still running; an operation
\* rejected for the cap writes no chunk and no file record and reports the
\* cap message.
C9_ConcurrencyCap ==
    \A o \in DOMAIN ops :
        /\ (ops[o].clientId # NoClient /\ Admitted(ops[o])) =>
               Cardinality({o2 \in DOMAIN ops :
                               /\ ops[o2].clientId = ops[o].clientId
                               /\ Admitted(ops[o2])}) <= ops[o].maxReqs
        /\ (ops[o].result.msg = CapMsg \/ ops[o].msg = CapMsg) =>
               ~ops[o].wroteData /\ ops[o].out = <<>>

(***************************************************************************)
(* The serial specification: NumSeqOps calls on one path, each awaited     *)
(* before the next is made and each content stream drained, with contents  *)
(* of every length up to MaxLen given as byte array, stream or string.     *)
(***************************************************************************)
\* The longest content: two full chunks and one byte.
MaxLen == 5

ByteSource == [i \in 1..MaxLen |-> i]

\* Code points of a string; 233 takes two bytes in UTF-8.
StringSource == <<233, 104, 105>>

SeqContents ==
    {[content |-> SubSeq(ByteSource, 1, n), ckind |-> k] :
        n \in 0..MaxLen, k \in {"bytes", "stream"}}
    \cup {[content |-> SubSeq(StringSource, 1, n), ckind |-> "string"] :
        n \in 0..Len(StringSource)}

DefaultClient == [clientId |-> NoClient, maxReqs |-> Unlimited]

SeqSaveInputs ==
    {Input(PathA, c, DefaultClient, cap, TRUE) :
        c \in SeqContents, cap \in {ChunkSize, Unlimited}}

SeqReadInput == Input(PathA, NoContent, DefaultClient, Unlimited, TRUE)

\* An earlier, longer file of the path.
LongContent == [i \in 1..MaxLen |-> 9]

StoredFile(content) ==
    [files |-> StoredFiles(PathA, content),
     chunks |-> StoredChunks(PathA, content), unresolved |-> EmptyMap]

SeqStores ==
    { [files |-> EmptyMap, chunks |-> EmptyMap, unresolved |-> EmptyMap],
      StoredFile(OldContent),
      StoredFile(LongContent) }

SeqOpIds == 1..NumSeqOps

InitSeq ==
    /\ \E st \in SeqStores :
          /\ files = st.files
          /\ chunks = st.chunks
          /\ unresolved = st.unresolved
    /\ savingFiles = EmptyMap
    /\ deletingFiles = EmptyMap
    /\ clientsReqsMap = EmptyMap
    /\ ops = [o \in SeqOpIds |-> IdleOp]

\* The caller awaits each call and drains each stream before the next call.
Quiet(o) == \A o2 \in (DOMAIN ops) \ {o} : ~Running(ops[o2])

SeqStep(o) ==
    \/ SaveStart(o)
    \/ SaveAdmit(o)
    \/ SaveChunk(o)
    \/ SaveRetract(o)
    \/ SavePutFile(o)
    \/ SaveFinalize(o)
    \/ SaveEnd(o)
    \/ DeleteStart(o)
    \/ DeleteAdmit(o)
    \/ DeleteScan(o)
    \/ DeleteListed(o)
    \/ DeleteChunk(o)
    \/ DeleteEnd(o)
    \/ ReadGet(o)
    \/ ReadReturn(o)
    \/ PullFirst(o)
    \/ PullDeliver(o)
    \/ PullDone(o)

NextSeq ==
    \/ \E o \in SeqOpIds, in \in SeqSaveInputs :
          NextSlot(o) /\ Quiet(o) /\ SaveCall(o, in)
    \/ \E o \in SeqOpIds : NextSlot(o) /\ Quiet(o) /\ DeleteCall(o, SeqReadInput)
    \/ \E o \in SeqOpIds : NextSlot(o) /\ Quiet(o) /\ ReadCall(o, SeqReadInput)
    \/ \E o \in SeqOpIds : SeqStep(o)

SpecSeq == InitSeq /\ [][NextSeq]_vars

(***************************************************************************)
(* The startup sweep (#deleteUnresolvedFiles, 534-546), started by the     *)
(* constructor and not awaited.  In Init and InitSeq the store holds no    *)
(* marker, so there the sweep scans nothing and starts nothing; InitSweep  *)
(* is the store a crashed engine left.                                     *)
(***************************************************************************)
\* Deno KV orders string key parts by their bytes.
CharCode(c) ==
    CASE c = "%" -> 37 [] c = "/" -> 47 [] c = "2" -> 50 [] c = "5" -> 53
      [] c = "F" -> 70 [] c = "a" -> 97 [] c = "b" -> 98 [] c = "c" -> 99
      [] c = "d" -> 100

RECURSIVE KeyLess(_, _)
KeyLess(u, v) ==
    IF u = <<>> THEN v # <<>>
    ELSE IF v = <<>> THEN FALSE
    ELSE IF Head(u) = Head(v) THEN KeyLess(Tail(u), Tail(v))
    ELSE CharCode(Head(u)) < CharCode(Head(v))

RECURSIVE KeyOrder(_)
KeyOrder(S) ==
    IF S = {} THEN <<>>
    ELSE LET m == CHOOSE x \in S : \A y \in S \ {x} : KeyLess(x, y)
         IN <<m>> \o KeyOrder(S \ {m})

\* {prefix: ["deno_kv_fs", "unresolved"]}
listUnresolved ==
    LET order == KeyOrder(DOMAIN unresolved)
    IN [k \in 1..Len(order) |-> [key |-> order[k], value |-> unresolved[order[k]]]]

\* The first next() of the pager, after `await #initKv`.
SweepScan(w) ==
    /\ ops[w].kind = "sweep"
    /\ ops[w].pc = "w_init"
    /\ ops' = [ops EXCEPT ![w].pc = "w_loop", ![w].iter = listUnresolved,
                          ![w].got = listUnresolved]
    /\ UNCHANGED <<files, chunks, unresolved, savingFiles, deletingFiles, clientsReqsMap>>

\* Line 544: delete(f.value), not awaited.  The stored options hold path,
\* clientId and maxClientIdConcurrentReqs, and no validateAccess.
SweepDelete(w, o) ==
    /\ ops[w].kind = "sweep"
    /\ ops[w].pc = "w_loop"
    /\ ops[w].iter # <<>>
    /\ ops[o].pc = "idle"
    /\ LET f  == Head(ops[w].iter)
           in == Input(f.value.path, NoContent,
                       [clientId |-> f.value.clientId, maxReqs |-> f.value.maxReqs],
                       Unlimited, TRUE)
       IN ops' = [ops EXCEPT ![w].iter = Tail(@),
                             ![o] = [DeleteEntry(o, in) EXCEPT !.sweep = TRUE]]
    /\ UNCHANGED <<files, chunks, unresolved, savingFiles, deletingFiles, clientsReqsMap>>

\* The scan is over.
SweepEnd(w) ==
    /\ ops[w].kind = "sweep"
    /\ ops[w].pc = "w_loop"
    /\ ops[w].iter = <<>>
    /\ ops' = [ops EXCEPT ![w].pc = "done"]
    /\ UNCHANGED <<files, chunks, unresolved, savingFiles, deletingFiles, clientsReqsMap>>

\* What the crashed engine left for a path: nothing, or the marker of the
\* call that was running (with its client's options) over the chunks it had
\* written or not yet deleted, with or without a file record.
SweepClients == {DefaultClient, [clientId |-> 7, maxReqs |-> 1]}

CrashStates ==
    {[marked |-> FALSE, record |-> FALSE, client |-> DefaultClient]}
    \cup {[marked |-> TRUE, record |-> r, client |-> c] :
             r \in BOOLEAN, c \in SweepClients}

CrashedStore(left) ==
    LET marked == {p \in Paths : left[p].marked}
        PathOf(uri) == CHOOSE p \in marked : pathToURIComponent(p) = uri
    IN [files |-> [p \in {q \in marked : left[q].record} |->
                      [path |-> p, URIComponent |-> pathToURIComponent(p),
                       metadata |-> NoMetadata, size |-> Len(OldContent),
                       flags |-> {}]],
        chunks |-> [k \in {<<pathToURIComponent(p), i>> :
                              p \in marked, i \in 1..Len(toChunks(OldContent))} |->
                       toChunks(OldContent)[k[2]]],
        unresolved |-> [uri \in {pathToURIComponent(p) : p \in marked} |->
                           [path |-> PathOf(uri),
                            clientId |-> left[PathOf(uri)].client.clientId,
                            maxReqs |-> left[PathOf(uri)].client.maxReqs]]]

SweepOp == [IdleOp EXCEPT !.kind = "sweep", !.pc = "w_init"]

SweepOpIds == 1..(1 + Cardinality(Paths))

InitSweep ==
    /\ \E left \in [Paths -> CrashStates] :
          /\ files = CrashedStore(left).files
          /\ chunks = CrashedStore(left).chunks
          /\ unresolved = CrashedStore(left).unresolved
    /\ savingFiles = EmptyMap
    /\ deletingFiles = EmptyMap
    /\ clientsReqsMap = EmptyMap
    /\ ops = [o \in SweepOpIds |-> IF o = 1 THEN SweepOp ELSE IdleOp]

SweepStep(o) ==
    \/ DeleteStart(o)
    \/ DeleteOverCap(o)
    \/ DeleteRejected(o)
    \/ DeleteAdmit(o)
    \/ DeleteScan(o)
    \/ DeleteListed(o)
    \/ DeleteChunk(o)
    \/ DeleteEnd(o)

NextSweep ==
    \/ SweepScan(1)
    \/ \E o \in SweepOpIds : NextSlot(o) /\ SweepDelete(1, o)
    \/ SweepEnd(1)
    \/ \E o \in SweepOpIds : SweepStep(o)

SpecSweep == InitSweep /\ [][NextSweep]_vars

\* The sweep and every delete it started have finished.
SweepSettled ==
    /\ ops[1].kind = "sweep"
    /\ \A o \in DOMAIN ops : ops[o].pc \in {"idle", "done"}

\* C10: once the startup sweep and the deletes it started have all finished,
\* for every unresolved marker the store held at construction no chunk and
\* no file record remains for its URI, and the marker is gone.
C10_CrashRecovery ==
    SweepSettled =>
        \A k \in 1..Len(ops[1].got) :
            LET f == ops[1].got[k]
            IN /\ ChunkIdx(f.key) = {}
               /\ f.value.path \notin DOMAIN files
               /\ f.key \notin DOMAIN unresolved

(***************************************************************************)
(* Properties of the serial specification.                                 *)
(***************************************************************************)
\* No later call on the path has changed what the save of slot o left.
LaterUntouched(o) ==
    \A o2 \in DOMAIN ops : o2 > o => ops[o2].kind \in {"none", "read"}

Returned(o) ==
    ops[o].kind = "save" /\ ops[o].pc = "done" /\ ops[o].result.tag = "file"

WithinCap(r) == Len(Bytes(r)) <= r.maxSize

\* C1: when save(p, b) with |b| within the size cap has returned a file
\* record and nothing else touches p, the following read(p) returns a record
\* of size |b| without the "incomplete" flag, and draining its content
\* stream ends with the stream closed after yielding exactly the bytes of b.
C1_RoundTrip ==
    \A o \in DOMAIN ops :
        (o > 1 /\ ops[o].kind = "read" /\ Returned(o - 1) /\ WithinCap(ops[o - 1]))
        => /\ ops[o].result.tag # "none" =>
                  /\ ops[o].result.tag = "file"
                  /\ ops[o].result.size = Len(Bytes(ops[o - 1]))
                  /\ "incomplete" \notin ops[o].result.flags
           /\ ops[o].pc = "done" =>
                  /\ ops[o].stream = "closed"
                  /\ ops[o].out = Bytes(ops[o - 1])

\* C4: when a save that ran alone on its path has returned a file record
\* after writing K chunks, the chunk indices stored for the URI are exactly
\* 1..K, whatever chunks the URI had before.
C4_Retraction ==
    \A o \in DOMAIN ops :
        (Returned(o) /\ LaterUntouched(o))
        => ChunkIdx(Uri(ops[o])) = 1..ops[o].totalCount

\* A save has returned over an earlier file that had chunks beyond the ones
\* the save wrote.
C4_Witness ==
    \E o \in DOMAIN ops :
        /\ Returned(o) /\ LaterUntouched(o)
        /\ \E i \in ops[o].idxAtCall : i > ops[o].totalCount

\* C5: after a successful save of b (any content kind, any length within the
\* size cap), chunk i holds min(ChunkSize, |b| - (i-1)*ChunkSize) bytes for
\* every i in 1..ceil(|b|/ChunkSize), and no chunk ceil(|b|/ChunkSize)+1
\* exists.
C5_Chunking ==
    \A o \in DOMAIN ops :
        (Returned(o) /\ WithinCap(ops[o]) /\ LaterUntouched(o))
        => LET n == Len(Bytes(ops[o]))
               k == (n + ChunkSize - 1) \div ChunkSize
               uri == Uri(ops[o])
           IN /\ \A i \in 1..k :
                    /\ <<uri, i>> \in DOMAIN chunks
                    /\ Len(chunks[<<uri, i>>]) = Min(ChunkSize, n - (i - 1) * ChunkSize)
              /\ <<uri, k + 1>> \notin DOMAIN chunks

(***************************************************************************)
(* The failing save: the content stream of a save errors after a chunk has *)
(* been put; the catch block of save (275-292) runs #endSaving with        *)
(* resolved = false and starts delete(options) without awaiting it.        *)
(***************************************************************************)
\* The read of the content stream in #getChunkIter (783) rejects after the
\* chunk put of 853-860; catch, #endSaving(options, false) (609-610).
SaveThrow(o) ==
    /\ ops[o].pc = "s_chunk"
    /\ ops[o].ckind = "stream"
    /\ ~ops[o].finished
    /\ savingFiles' = MapDel(savingFiles, Uri(ops[o]))
    /\ clientsReqsMap' = _decrementClientIdReq(clientsReqsMap, ops[o].clientId)
    /\ ops' = [ops EXCEPT ![o].pc = "s_failed", ![o].msg = "stream error",
                          ![o].sizeBytes = @ + Len(ops[o].lastChunk)]
    /\ UNCHANGED <<files, chunks, unresolved, deletingFiles>>

\* Lines 278-291: this.delete(options), with the options of the save, then
\* the error status is returned.
SaveCompensate(o, d) ==
    /\ ops[o].pc = "s_failed"
    /\ ops[d].pc = "idle"
    /\ LET in == Input(ops[o].path, NoContent,
                       [clientId |-> ops[o].clientId, maxReqs |-> ops[o].maxReqs],
                       ops[o].maxSize, ops[o].access)
       IN ops' = [ops EXCEPT ![o].pc = "done",
                             ![o].result = ErrorResult(ops[o].msg),
                             ![d] = [DeleteEntry(d, in) EXCEPT !.parent = o]]
    /\ UNCHANGED <<files, chunks, unresolved, savingFiles, deletingFiles, clientsReqsMap>>

\* One save of a stream of two chunks on PathA, the delete its catch block
\* starts, and one save of the same client on another path.
NumFailOps == 3

FailOpIds == 1..NumFailOps

FailClients == {DefaultClient, [clientId |-> 7, maxReqs |-> 1]}

FailingInputs ==
    {Input(PathA, [content |-> OldContent, ckind |-> "stream"], cl, Unlimited, TRUE) :
        cl \in FailClients}

OtherInputs ==
    {Input(PathB, [content |-> <<4>>, ckind |-> "bytes"], cl, Unlimited, TRUE) :
        cl \in FailClients}

InitFail ==
    /\ files = EmptyMap
    /\ chunks = EmptyMap
    /\ unresolved = EmptyMap
    /\ savingFiles = EmptyMap
    /\ deletingFiles = EmptyMap
    /\ clientsReqsMap = EmptyMap
    /\ ops = [o \in FailOpIds |-> IdleOp]

FailStep(o) ==
    \/ SaveStart(o)
    \/ SaveOverCap(o)
    \/ SaveRejected(o)
    \/ SaveAdmit(o)
    \/ SaveChunk(o)
    \/ SaveThrow(o)
    \/ SavePutFile(o)
    \/ SaveFinalize(o)
    \/ SaveEnd(o)
    \/ DeleteStart(o)
    \/ DeleteOverCap(o)
    \/ DeleteRejected(o)
    \/ DeleteAdmit(o)
    \/ DeleteScan(o)
    \/ DeleteListed(o)
    \/ DeleteChunk(o)
    \/ DeleteEnd(o)

NextFail ==
    \/ \E in \in FailingInputs : SaveCall(1, in)
    \/ \E o \in FailOpIds \ {1}, in \in OtherInputs :
          /\ NextSlot(o)
          /\ \A o2 \in FailOpIds : ops[o2].path # in.path
          /\ SaveCall(o, in)
    \/ \E o, d \in FailOpIds : NextSlot(d) /\ SaveCompensate(o, d)
    \/ \E o \in FailOpIds : FailStep(o)

SpecFail == InitFail /\ [][NextFail]_vars

\* C11: when a save of p has failed with a thrown error after writing some
\* chunks, then once the delete its catch block started has finished, no
\* chunk, no file record and no unresolved marker exists for p, whatever
\* other calls of the same client were started in the meantime (here no
\* other call is made on p itself).
C11_CompensatingDelete ==
    \A d \in DOMAIN ops :
        (ops[d].parent # 0 /\ ops[d].pc = "done")
        => /\ ChunkIdx(Uri(ops[d])) = {}
           /\ ops[d].path \notin DOMAIN files
           /\ Uri(ops[d]) \notin DOMAIN unresolved

(***************************************************************************)
(* Validation: calls whose metadata is too large, whose validateAccess     *)
(* answers false or whose extension is filtered, beside valid calls.       *)
(***************************************************************************)
NamedJ == << <<"x", ".", "j">> >>

NamedP == << <<"x", ".", "p">> >>

Undotted == << <<"j">> >>

ExtPaths == {NamedJ, NamedP, Undotted}

CountedClient == [clientId |-> 7, maxReqs |-> Unlimited]

ValidationSaveInputs ==
    {Input(p, [content |-> <<4>>, ckind |-> "bytes"], CountedClient, Unlimited, a)
        @@ [metaSize |-> m, allowed |-> al] :
        p \in ExtPaths, a \in BOOLEAN, m \in {0, MetaLimit, MetaLimit + 1},
        al \in {{}, {<<"j">>}}}

ValidationReadInputs ==
    {Input(p, NoContent, CountedClient, Unlimited, a) : p \in ExtPaths, a \in BOOLEAN}

InitValid ==
    /\ files = StoredFiles(NamedP, OldContent)
    /\ chunks = StoredChunks(NamedP, OldContent)
    /\ unresolved = EmptyMap
    /\ savingFiles = EmptyMap
    /\ deletingFiles = EmptyMap
    /\ clientsReqsMap = EmptyMap
    /\ ops = [o \in OpIds |-> IdleOp]

ValidStep(o) ==
    \/ SaveForbidden(o)
    \/ SaveBadExtension(o)
    \/ SaveStart(o)
    \/ SaveAdmit(o)
    \/ SaveChunk(o)
    \/ SaveRetract(o)
    \/ SavePutFile(o)
    \/ SaveFinalize(o)
    \/ SaveEnd(o)
    \/ DeleteForbidden(o)
    \/ DeleteStart(o)
    \/ DeleteAdmit(o)
    \/ DeleteScan(o)
    \/ DeleteListed(o)
    \/ DeleteChunk(o)
    \/ DeleteEnd(o)
    \/ ReadForbidden(o)
    \/ ReadGet(o)
    \/ ReadReturn(o)
    \/ PullFirst(o)
    \/ PullDeliver(o)
    \/ PullDone(o)

NextValid ==
    \/ \E o \in OpIds, in \in ValidationSaveInputs : NextSlot(o) /\ SaveCall(o, in)
    \/ \E o \in OpIds, in \in ValidationReadInputs : NextSlot(o) /\ DeleteCall(o, in)
    \/ \E o \in OpIds, in \in ValidationReadInputs : NextSlot(o) /\ ReadCall(o, in)
    \/ \E o \in OpIds : ValidStep(o)

SpecValid == InitValid /\ [][NextValid]_vars

\* The call of record r fails validation: for a save the metadata limit, the
\* access check or the extension filter; for read and delete the access check.
Filtered(r) == r.allowed # {} /\ fileExt(r.path[Len(r.path)]) \notin r.allowed

Invalid(r) ==
    \/ ~r.access
    \/ r.kind = "save" /\ (r.metaSize > MetaLimit \/ Filtered(r))

InFlightStatus(res) == res.tag = "status" /\ res.status \in {"saving", "deleting"}

Shared == <<files, chunks, unresolved, savingFiles, deletingFiles, clientsReqsMap>>

\* C12: a save, read or delete that fails validation on a path not in
\* flight returns status "error", and no step of it changes the store, the
\* saving and deleting maps or the client counts.
C12_ValidationFrame ==
    /\ [](\A o \in DOMAIN ops :
            (Invalid(ops[o]) /\ ops[o].pc = "done" /\ ~InFlightStatus(ops[o].result))
            => /\ ops[o].result.tag = "status"
               /\ ops[o].result.status = "error"
               /\ ~ops[o].wroteKv /\ ~ops[o].wroteData)
    /\ [][\A o \in DOMAIN ops :
            (ops'[o] # ops[o] /\ Invalid(ops'[o])) => UNCHANGED Shared]_vars

\* A save with a filtered extension, allowed access and small metadata has
\* returned its error.
C12_Witness ==
    \E o \in DOMAIN ops :
        /\ ops[o].kind = "save" /\ ops[o].pc = "done"
        /\ ops[o].access /\ ops[o].metaSize <= MetaLimit /\ Filtered(ops[o])
        /\ ops[o].result.status = "error"

\* C31: a save, read or delete whose validateAccess answers false returns
\* the "Forbidden" error whether or not its path is in flight, and never the
\* status "saving" or "deleting" with the progress of another call.
C31_AccessHidesInFlight ==
    \A o \in DOMAIN ops :
        (/\ ops[o].kind \in {"save", "read", "delete"}
         /\ ops[o].pc = "done"
         /\ ~ops[o].access
         /\ ops[o].metaSize <= MetaLimit)
        => /\ ~InFlightStatus(ops[o].result)
           /\ ops[o].result = ErrorResult("Forbidden")

(***************************************************************************)
(* KV failures: a KV call of an operation rejects.  The failed call has no *)
(* effect on the store; the operation resumes with the rejection.          *)
(***************************************************************************)
\* The marker put of #startSaving (594) rejects.  Lines 231-232 are outside
\* the try of save (248): the rejection leaves save, after #startSaving has
\* taken the slot (591) and entered the saving map (593).
SaveStartFails(o) ==
    /\ ops[o].pc = "s_validate"
    /\ ops[o].access
    /\ ExtAllowed(ops[o])
    /\ clientsReqsMap' = _incrementClientIdReq(clientsReqsMap, ops[o].clientId)
    /\ savingFiles' = MapSet(savingFiles, Uri(ops[o]), 0)
    /\ ops' = [ops EXCEPT ![o].pc = "done", ![o].kvFailed = TRUE,
                          ![o].result = ThrownResult("kv error")]
    /\ UNCHANGED <<files, chunks, unresolved, deletingFiles>>

\* The put of the file record (272) rejects, inside the try: catch,
\* #endSaving(options, false) (609-610).
SavePutFileFails(o) ==
    /\ ops[o].pc = "s_retract"
    /\ ops[o].iter = <<>>
    /\ savingFiles' = MapDel(savingFiles, Uri(ops[o]))
    /\ clientsReqsMap' = _decrementClientIdReq(clientsReqsMap, ops[o].clientId)
    /\ ops' = [ops EXCEPT ![o].pc = "s_failed", ![o].kvFailed = TRUE,
                          ![o].msg = "kv error"]
    /\ UNCHANGED <<files, chunks, unresolved, deletingFiles>>

\* The marker put of #startDeleting (616) rejects, inside the try of delete
\* (439): catch, #endDeleting(options, false) (631-632), lines 468-476.
DeleteStartFails(o) ==
    /\ ops[o].pc = "d_validate"
    /\ ops[o].access
    /\ clientsReqsMap' =
          _decrementClientIdReq(
              _incrementClientIdReq(clientsReqsMap, ops[o].clientId),
              ops[o].clientId)
    /\ deletingFiles' = MapDel(deletingFiles, Uri(ops[o]))
    /\ ops' = [ops EXCEPT ![o].pc = "done", ![o].kvFailed = TRUE,
                          ![o].result = ErrorResult("kv error")]
    /\ UNCHANGED <<files, chunks, unresolved, savingFiles>>

\* The get of the file record (315) rejects; read has no try.
ReadGetFails(o) ==
    /\ ops[o].pc = "r_validate"
    /\ ops[o].access
    /\ ops' = [ops EXCEPT ![o].pc = "done", ![o].kvFailed = TRUE,
                          ![o].result = ThrownResult("kv error")]
    /\ UNCHANGED <<files, chunks, unresolved, savingFiles, deletingFiles, clientsReqsMap>>

KvInputs == {Input(PathA, [content |-> <<4>>, ckind |-> "bytes"],
                   CountedClient, Unlimited, TRUE)}

KvStep(o) ==
    \/ SaveStart(o)
    \/ SaveStartFails(o)
    \/ SaveAdmit(o)
    \/ SaveChunk(o)
    \/ SaveRetract(o)
    \/ SavePutFile(o)
    \/ SavePutFileFails(o)
    \/ SaveFinalize(o)
    \/ SaveEnd(o)
    \/ DeleteStart(o)
    \/ DeleteStartFails(o)
    \/ DeleteAdmit(o)
    \/ DeleteScan(o)
    \/ DeleteListed(o)
    \/ DeleteChunk(o)
    \/ DeleteEnd(o)
    \/ ReadGet(o)
    \/ ReadGetFails(o)
    \/ ReadReturn(o)
    \/ PullFirst(o)
    \/ PullDeliver(o)
    \/ PullDone(o)

InitKv ==
    /\ files = StoredFiles(PathA, OldContent)
    /\ chunks = StoredChunks(PathA, OldContent)
    /\ unresolved = EmptyMap
    /\ savingFiles = EmptyMap
    /\ deletingFiles = EmptyMap
    /\ clientsReqsMap = EmptyMap
    /\ ops = [o \in FailOpIds |-> IdleOp]

NextKv ==
    \/ \E o \in OpIds, in \in KvInputs : NextSlot(o) /\ SaveCall(o, in)
    \/ \E o \in OpIds, in \in KvInputs : NextSlot(o) /\ DeleteCall(o, in)
    \/ \E o \in OpIds, in \in KvInputs : NextSlot(o) /\ ReadCall(o, in)
    \/ \E o, d \in FailOpIds : NextSlot(d) /\ SaveCompensate(o, d)
    \/ \E o \in FailOpIds : KvStep(o)

SpecKv == InitKv /\ [][NextKv]_vars

\* C13: an operation one of whose KV calls failed returns a status "error"
\* instead of throwing; once nothing else runs, its URI is in neither map and
\* its client holds no slot.
C13_NoRaise ==
    \A o \in DOMAIN ops :
        (ops[o].kvFailed /\ ops[o].pc = "done")
        => /\ ops[o].result.tag = "status"
           /\ ops[o].result.status = "error"
           /\ (\A o2 \in DOMAIN ops : ~Running(ops[o2]))
              => /\ ~fileIsSaving(Uri(ops[o]))
                 /\ ~fileIsDeleting(Uri(ops[o]))
                 /\ getClientReqs(clientsReqsMap, ops[o].clientId) = 0

(***************************************************************************)
(* Serial deletes and reads of one path, each awaited and each stream      *)
(* drained before the next call, on a store that holds nothing or a file   *)
(* of zero, two or three chunks.                                           *)
(***************************************************************************)
NumDelOps == 3

DelOpIds == 1..NumDelOps

DelInputs == {Input(PathA, NoContent, cl, Unlimited, TRUE) : cl \in FailClients}

DelStores == SeqStores \cup {StoredFile(<<>>)}

InitDel ==
    /\ \E st \in DelStores :
          /\ files = st.files
          /\ chunks = st.chunks
          /\ unresolved = st.unresolved
    /\ savingFiles = EmptyMap
    /\ deletingFiles = EmptyMap
    /\ clientsReqsMap = EmptyMap
    /\ ops = [o \in DelOpIds |-> IdleOp]

DelStep(o) ==
    \/ DeleteStart(o)
    \/ DeleteAdmit(o)
    \/ DeleteScan(o)
    \/ DeleteListed(o)
    \/ DeleteChunk(o)
    \/ DeleteEnd(o)
    \/ ReadGet(o)
    \/ ReadReturn(o)
    \/ PullFirst(o)
    \/ PullDeliver(o)
    \/ PullDone(o)

NextDel ==
    \/ \E o \in DelOpIds, in \in DelInputs :
          NextSlot(o) /\ Quiet(o) /\ DeleteCall(o, in)
    \/ \E o \in DelOpIds, in \in DelInputs :
          NextSlot(o) /\ Quiet(o) /\ ReadCall(o, in)
    \/ \E o \in DelOpIds : DelStep(o)

SpecDel == InitDel /\ [][NextDel]_vars

\* The event loop runs every continuation that is ready.
FairSpecDel == SpecDel /\ WF_vars(\E o \in DelOpIds : DelStep(o))

\* The first two calls are deletes and the calls after them, if made, are
\* reads.
TwoDeletes ==
    /\ ops[1].kind = "delete" /\ ops[2].kind = "delete"
    /\ \A o \in DelOpIds \ {1, 2} : ops[o].kind \in {"none", "read"}

\* C14: two consecutive delete(p) calls both terminate and return no error
\* status; after them no chunk, no marker and no file record exists for p,
\* the saving and deleting maps and the client counts are as before the
\* first call (empty), and a following read(p) returns null.
C14_IdempotentDelete ==
    /\ \A o \in 1..2 : (ops[o].kind = "delete" /\ Running(ops[o])) ~> (ops[o].pc = "done")
    /\ []((TwoDeletes /\ ops[2].pc = "done")
          => /\ ops[1].result = VoidResult /\ ops[2].result = VoidResult
             /\ ChunkIdx(pathToURIComponent(PathA)) = {}
             /\ pathToURIComponent(PathA) \notin DOMAIN unresolved
             /\ \A o \in DelOpIds \ {1, 2} :
                   (ops[o].kind = "read" /\ ops[o].result.tag # "none")
                   => ops[o].result = NullResult)
    /\ []((TwoDeletes /\ ops[2].pc = "done"
           /\ \A o \in DelOpIds \ {1, 2} : ~Running(ops[o]))
          => /\ savingFiles = EmptyMap
             /\ deletingFiles = EmptyMap
             /\ clientsReqsMap = EmptyMap)

\* Two deletes of a file that had chunks have returned and the read after
\* them has returned null.
C14_Witness ==
    /\ TwoDeletes /\ ops[2].pc = "done"
    /\ ops[1].idxAtCall # {}
    /\ ops[3].kind = "read" /\ ops[3].result = NullResult

(***************************************************************************)
(* More properties of the serial specification.                            *)
(***************************************************************************)
\* The bytes stored for the URI: its chunks in key order.
StoredContent(uri) ==
    Concat([k \in 1..Len(listPrefix(uri)) |-> listPrefix(uri)[k].value])

\* C15: when the content given to save is longer than maxFileSizeBytes the
\* returned record carries the flag "incomplete"; when the returned record
\* does not carry it, the stored chunks hold the entire input and the size is
\* at most maxFileSizeBytes.
C15_SizeCapTagging ==
    \A o \in DOMAIN ops :
        Returned(o)
        => /\ ~WithinCap(ops[o]) => "incomplete" \in ops[o].result.flags
           /\ ("incomplete" \notin ops[o].result.flags /\ LaterUntouched(o))
              => /\ StoredContent(Uri(ops[o])) = Bytes(ops[o])
                 /\ ops[o].result.size <= ops[o].maxSize

(***************************************************************************)
(* readDir (325-394) over pagedListIterator (128-161) and the list         *)
(* iterator of the store.  A cursor is modelled as <<key>>, the key of the *)
(* last entry the list iterator returned; the empty cursor is <<>>.        *)
(***************************************************************************)
\* #maxPageSize (line 75) is 1000; the model's pages are shorter.
maxPageSize == 2

\* Key parts are ordered one by one, a key before its extensions.
RECURSIVE PathLess(_, _)
PathLess(p, q) ==
    IF p = <<>> THEN q # <<>>
    ELSE IF q = <<>> THEN FALSE
    ELSE IF Head(p) = Head(q) THEN PathLess(Tail(p), Tail(q))
    ELSE KeyLess(Head(p), Head(q))

RECURSIVE PathOrder(_)
PathOrder(S) ==
    IF S = {} THEN <<>>
    ELSE LET m == CHOOSE x \in S : \A y \in S \ {x} : PathLess(x, y)
         IN <<m>> \o PathOrder(S \ {m})

\* A list that returns nothing when it is resumed from a cursor.
listFilesOnce(prefix, cursor) ==
    LET under == {k \in DOMAIN files :
                    /\ Len(k) > Len(prefix)
                    /\ SubSeq(k, 1, Len(prefix)) = prefix
                    /\ cursor = <<>>}
        order == PathOrder(under)
    IN [i \in 1..Len(order) |-> [key |-> order[i], value |-> files[order[i]]]]

\* kv.list({prefix: ["deno_kv_fs", "files", ...path]}, {cursor}): the keys
\* that extend the prefix, the prefix itself excluded, after the cursor's key.
listFiles(prefix, cursor) ==
    LET under == {k \in DOMAIN files :
                    /\ Len(k) > Len(prefix)
                    /\ SubSeq(k, 1, Len(prefix)) = prefix
                    /\ cursor # <<>> => PathLess(cursor[1], k)}
        order == PathOrder(under)
    IN [i \in 1..Len(order) |-> [key |-> order[i], value |-> files[order[i]]]]

\* Lines 326-327: `await validateAccess`.
DirCall(o, in) ==
    /\ ops[o].pc = "idle"
    /\ ops' = [ops EXCEPT ![o] = [NewOp(o, "readDir", in) EXCEPT !.pc = "l_validate"]]
    /\ UNCHANGED <<files, chunks, unresolved, savingFiles, deletingFiles, clientsReqsMap>>

\* Lines 328-338.
DirForbidden(o) ==
    /\ ops[o].pc = "l_validate"
    /\ ~ops[o].access
    /\ ops' = [ops EXCEPT ![o].pc = "done", ![o].got = <<ErrorResult("Forbidden")>>,
                          ![o].result = [NoResult EXCEPT !.tag = "dir"]]
    /\ UNCHANGED <<files, chunks, unresolved, savingFiles, deletingFiles, clientsReqsMap>>

\* Lines 340-353: the first kv.list, from options.cursor.
DirScan(o) ==
    /\ ops[o].pc = "l_validate"
    /\ ops[o].access
    /\ ops' = [ops EXCEPT ![o].pc = "l_loop",
                          ![o].iter = listFiles(ops[o].path, ops[o].cursor)]
    /\ UNCHANGED <<files, chunks, unresolved, savingFiles, deletingFiles, clientsReqsMap>>

\* entries.next() has returned `limit` entries: it answers done and keeps
\* its cursor; pagedListIterator (138-147) lists again from that cursor.
DirRelist(o) ==
    /\ ops[o].pc = "l_loop"
    /\ ops[o].kvCount >= maxPageSize
    /\ ops' = [ops EXCEPT ![o].kvCount = 0,
                          ![o].iter = listFiles(ops[o].path, <<ops[o].lastKey>>)]
    /\ UNCHANGED <<files, chunks, unresolved, savingFiles, deletingFiles, clientsReqsMap>>

\* entries.next() finds the range exhausted: done with the empty cursor;
\* the generator ends and readDir returns (line 393).
DirEnd(o) ==
    /\ ops[o].pc = "l_loop"
    /\ ops[o].kvCount < maxPageSize
    /\ ops[o].iter = <<>>
    /\ ops' = [ops EXCEPT ![o].pc = "done",
                          ![o].result = [NoResult EXCEPT !.tag = "dir",
                                                         !.size = ops[o].dirSize]]
    /\ UNCHANGED <<files, chunks, unresolved, savingFiles, deletingFiles, clientsReqsMap>>

\* entries.next() returns an entry; pagedListIterator tags every
\* maxPageSize-th entry with the iterator's cursor (148-156); the loop body
\* of readDir (354-391).
DirEntry(o) ==
    /\ ops[o].pc = "l_loop"
    /\ ops[o].kvCount < maxPageSize
    /\ ops[o].iter # <<>>
    /\ LET f       == Head(ops[o].iter)
           tagged  == ops[o].pgCount + 1 = maxPageSize
           fcursor == IF tagged THEN <<f.key>> ELSE <<>>
           st      == fileStatus(pathToURIComponent(f.key))
           entry   == IF st.status # "none" THEN StatusResult(st)
                      ELSE FileResult(f.value)
           size    == IF st.status # "none"
                      THEN (IF st.status = "saving" /\ st.progress # 0
                            THEN ops[o].dirSize + st.progress ELSE ops[o].dirSize)
                      ELSE ops[o].dirSize + f.value.size
           out     == Append(ops[o].got, entry)
           stop    == Len(out) = maxPageSize /\ ops[o].pagination /\ fcursor # <<>>
       IN ops' = [ops EXCEPT ![o] =
                     [@ EXCEPT !.iter = Tail(ops[o].iter),
                               !.kvCount = @ + 1,
                               !.lastKey = f.key,
                               !.pgCount = IF tagged THEN 0 ELSE @ + 1,
                               !.got = out,
                               !.dirSize = size,
                               !.cursorOut = IF stop THEN fcursor ELSE <<>>,
                               !.pc = IF stop THEN "done" ELSE "l_loop",
                               !.result = IF stop
                                          THEN [NoResult EXCEPT !.tag = "dir",
                                                                !.size = size]
                                          ELSE NoResult]]
    /\ UNCHANGED <<files, chunks, unresolved, savingFiles, deletingFiles, clientsReqsMap>>

(***************************************************************************)
(* Serial readDir calls on a directory of 0..MaxDirFiles files, each call  *)
(* passing no cursor or the cursor the call before it returned.            *)
(***************************************************************************)
MaxDirFiles == 5

NumDirOps == 3

DirOpIds == 1..NumDirOps

DirPath == << <<"d">> >>

\* File names, in the order the files were saved.
DirNames == << <<"b">>, <<"F">>, <<"a">>, <<"2">>, <<"c">>, <<"d">>, <<"5">> >>

\* The first n files of the directory, and two files outside it: one beside
\* the directory and one at the directory's own key.
DirStore(n) ==
    LET paths == {DirPath \o <<DirNames[i]>> : i \in 1..n} \cup {PathA, DirPath}
    IN [files |-> [q \in paths |->
                      [path |-> q, URIComponent |-> pathToURIComponent(q),
                       metadata |-> NoMetadata, size |-> 1, flags |-> {}]],
        chunks |-> [k \in {<<pathToURIComponent(q), 1>> : q \in paths} |-> <<7>>]]

InitDir ==
    /\ \E n \in 0..MaxDirFiles :
          /\ files = DirStore(n).files
          /\ chunks = DirStore(n).chunks
    /\ unresolved = EmptyMap
    /\ savingFiles = EmptyMap
    /\ deletingFiles = EmptyMap
    /\ clientsReqsMap = EmptyMap
    /\ ops = [o \in DirOpIds |-> IdleOp]

\* The cursors a caller can pass: none, or the one the call before returned.
DirInputs(o) ==
    {Input(DirPath, NoContent, DefaultClient, Unlimited, a)
        @@ [pagination |-> pg, cursor |-> c] :
        a \in BOOLEAN, pg \in BOOLEAN,
        c \in {<<>>} \cup (IF o > 1 THEN {ops[o - 1].cursorOut} ELSE {})}

DirStep(o) ==
    \/ DirForbidden(o)
    \/ DirScan(o)
    \/ DirRelist(o)
    \/ DirEntry(o)
    \/ DirEnd(o)

NextDir ==
    \/ \E o \in DirOpIds : \E in \in DirInputs(o) :
          NextSlot(o) /\ Quiet(o) /\ DirCall(o, in)
    \/ \E o \in DirOpIds : DirStep(o)

SpecDir == InitDir /\ [][NextDir]_vars

\* The first k calls are a paginated walk: the first passes no cursor, each
\* later one the cursor returned by the call before it, and all have returned.
Walk(k) ==
    /\ \A j \in 1..k :
          /\ ops[j].kind = "readDir" /\ ops[j].pc = "done"
          /\ ops[j].access /\ ops[j].pagination
    /\ ops[1].cursor = <<>>
    /\ \A j \in 2..k : ops[j].cursor # <<>> /\ ops[j].cursor = ops[j - 1].cursorOut

\* The file records under the directory, in key order.
Listing ==
    LET all == listFiles(DirPath, <<>>)
    IN [i \in 1..Len(all) |-> FileResult(all[i].value)]

\* C16: in a paginated walk every call returns at most maxPageSize entries;
\* a cursor is returned only when a next page with at least one entry
\* exists; and when a call returns no cursor, the pages of the walk together
\* are every file record under the prefix, once each, in key order.
C16_ReadDirPagination ==
    \A k \in DOMAIN ops :
        Walk(k)
        => /\ Len(ops[k].got) <= maxPageSize
           /\ ops[k].cursorOut # <<>> => listFiles(DirPath, ops[k].cursorOut) # <<>>
           /\ ops[k].cursorOut = <<>>
              => Concat([j \in 1..k |-> ops[j].got]) = Listing

(***************************************************************************)
(* The path codec on its own: a path is encoded, the result decoded.       *)
(***************************************************************************)
MaxSegs == 2

MaxSegLen == 2

CodecChars == {"/", "%", "2", "F"}

Strings(S, n) == UNION {[1..k -> S] : k \in 0..n}

\* Every path of at most MaxSegs segments of at most MaxSegLen characters,
\* the empty path (the root) and empty segments included.
CodecPaths == Strings(Strings(CodecChars, MaxSegLen), MaxSegs)

InitCodec ==
    /\ files = EmptyMap
    /\ chunks = EmptyMap
    /\ unresolved = EmptyMap
    /\ savingFiles = EmptyMap
    /\ deletingFiles = EmptyMap
    /\ clientsReqsMap = EmptyMap
    /\ \E q \in CodecPaths :
          ops = <<[IdleOp EXCEPT !.kind = "codec", !.path = q]>>

Encode(o) ==
    /\ ops[o].kind = "codec"
    /\ ops[o].pc = "idle"
    /\ ops' = [ops EXCEPT ![o].pc = "encoded",
                          ![o].out = pathToURIComponent(ops[o].path)]
    /\ UNCHANGED <<files, chunks, unresolved, savingFiles, deletingFiles, clientsReqsMap>>

Decode(o) ==
    /\ ops[o].kind = "codec"
    /\ ops[o].pc = "encoded"
    /\ ops' = [ops EXCEPT ![o].pc = "done",
                          ![o].got = URIComponentToPath(ops[o].out)]
    /\ UNCHANGED <<files, chunks, unresolved, savingFiles, deletingFiles, clientsReqsMap>>

NextCodec == Encode(1) \/ Decode(1)

SpecCodec == InitCodec /\ [][NextCodec]_vars

\* C17: decoding the encoding of a path gives the path back, for every
\* sequence of strings, the empty one included; and no other path has the
\* same encoding.
C17_PathCodec ==
    \A o \in DOMAIN ops :
        (ops[o].kind = "codec" /\ ops[o].pc = "done")
        => /\ ops[o].got = ops[o].path
           /\ \A q \in CodecPaths :
                 pathToURIComponent(q) = ops[o].out => q = ops[o].path

(***************************************************************************)
(* The throttle of save: one save with chunksPerSecond = k, its chunk puts *)
(* taking 0, half a second or a second each.                               *)
(***************************************************************************)
Rates == {1, 2}

RateInputs ==
    {Input(PathA, c, DefaultClient, Unlimited, TRUE) @@ [chunksPerSecond |-> k] :
        c \in {x \in SeqContents : x.ckind # "string"}, k \in Rates}

InitRate ==
    /\ files = EmptyMap
    /\ chunks = EmptyMap
    /\ unresolved = EmptyMap
    /\ savingFiles = EmptyMap
    /\ deletingFiles = EmptyMap
    /\ clientsReqsMap = EmptyMap
    /\ ops = <<IdleOp>>

RateStep(o) ==
    \/ SaveStart(o)
    \/ SaveAdmit(o)
    \/ SaveChunk(o)
    \/ SaveWake(o)
    \/ SavePutFile(o)
    \/ SaveFinalize(o)
    \/ SaveEnd(o)

NextRate ==
    \/ \E in \in RateInputs : SaveCall(1, in)
    \/ RateStep(1)

SpecRate == InitRate /\ [][NextRate]_vars

\* C18: a save with chunksPerSecond = k that has put N chunks has slept, and
\* so has taken, at least floor(N/k) seconds.
C18_RateBound ==
    \A o \in DOMAIN ops :
        (ops[o].kind = "save" /\ ops[o].chunksPerSecond # Unlimited
         /\ ops[o].pc \in {"s_retract", "s_file", "s_end", "done"})
        => ops[o].clock >= (ops[o].totalCount \div ops[o].chunksPerSecond) * OneSecond

(***************************************************************************)
(* setMetadata (395-411) among saves and deletes of the same path.         *)
(***************************************************************************)
\* Lines 399-404: the size check, which throws, then #initKv.
MetaCall(o, in) ==
    /\ ops[o].pc = "idle"
    /\ LET r == NewOp(o, "meta", in)
       IN ops' = [ops EXCEPT ![o] =
                     IF r.metaSize > MetaLimit
                     THEN [r EXCEPT !.pc = "done",
                                    !.result = ThrownResult("Metadata exceeds 60KB limit")]
                     ELSE [r EXCEPT !.pc = "m_init"]]
    /\ UNCHANGED <<files, chunks, unresolved, savingFiles, deletingFiles, clientsReqsMap>>

\* Lines 405-406: get the file record.
MetaGet(o) ==
    /\ ops[o].pc = "m_init"
    /\ ops' = [ops EXCEPT ![o].pc = "m_get",
                          ![o].got = IF ops[o].path \in DOMAIN files
                                     THEN <<files[ops[o].path]>> ELSE <<>>]
    /\ UNCHANGED <<files, chunks, unresolved, savingFiles, deletingFiles, clientsReqsMap>>

\* Lines 407-410: no record, return; else put the record that was got, with
\* the new metadata.
MetaSet(o) ==
    /\ ops[o].pc = "m_get"
    /\ IF ops[o].got = <<>>
       THEN /\ files' = files
            /\ ops' = [ops EXCEPT ![o].pc = "done", ![o].result = VoidResult]
       ELSE /\ files' = MapSet(files, ops[o].path,
                               [ops[o].got[1] EXCEPT !.metadata = ops[o].metadata])
            /\ ops' = [ops EXCEPT ![o].pc = "m_set", ![o].wroteKv = TRUE]
    /\ UNCHANGED <<chunks, unresolved, savingFiles, deletingFiles, clientsReqsMap>>

\* The put of line 409 is over.
MetaEnd(o) ==
    /\ ops[o].pc = "m_set"
    /\ ops' = [ops EXCEPT ![o].pc = "done", ![o].result = VoidResult]
    /\ UNCHANGED <<files, chunks, unresolved, savingFiles, deletingFiles, clientsReqsMap>>

NumMetaOps == 2

MetaOpIds == 1..NumMetaOps

MetaSaveInputs == {Input(PathA, c, DefaultClient, Unlimited, TRUE) : c \in ConcContents}

MetaDeleteInputs == {Input(PathA, NoContent, DefaultClient, Unlimited, TRUE)}

MetaInputs ==
    {Input(PathA, NoContent, DefaultClient, Unlimited, TRUE)
        @@ [metadata |-> "m", metaSize |-> n] : n \in {1, MetaLimit + 1}}

InitMeta ==
    /\ \E old \in {<<>>, OldContent} :
          /\ files = IF old = <<>> THEN EmptyMap ELSE StoredFiles(PathA, old)
          /\ chunks = IF old = <<>> THEN EmptyMap ELSE StoredChunks(PathA, old)
    /\ unresolved = EmptyMap
    /\ savingFiles = EmptyMap
    /\ deletingFiles = EmptyMap
    /\ clientsReqsMap = EmptyMap
    /\ ops = [o \in MetaOpIds |-> IdleOp]

MetaStep(o) ==
    \/ SaveStart(o)
    \/ SaveAdmit(o)
    \/ SaveChunk(o)
    \/ SaveRetract(o)
    \/ SavePutFile(o)
    \/ SaveFinalize(o)
    \/ SaveEnd(o)
    \/ DeleteStart(o)
    \/ DeleteAdmit(o)
    \/ DeleteScan(o)
    \/ DeleteListed(o)
    \/ DeleteChunk(o)
    \/ DeleteEnd(o)
    \/ MetaGet(o)
    \/ MetaSet(o)
    \/ MetaEnd(o)

NextMeta ==
    \/ \E o \in MetaOpIds, in \in MetaSaveInputs : NextSlot(o) /\ SaveCall(o, in)
    \/ \E o \in MetaOpIds, in \in MetaDeleteInputs : NextSlot(o) /\ DeleteCall(o, in)
    \/ \E o \in MetaOpIds, in \in MetaInputs : NextSlot(o) /\ MetaCall(o, in)
    \/ \E o \in MetaOpIds : MetaStep(o)

SpecMeta == InitMeta /\ [][NextMeta]_vars

\* C19: the write of setMetadata creates no file record for a path that has
\* none at that moment, and leaves the path, the size and the flags of the
\* record that is there as they are.
C19_MetadataOnly ==
    [][\A o \in DOMAIN ops :
          (ops[o].kind = "meta" /\ ops[o].pc = "m_get" /\ ops'[o].pc # "m_get")
          => /\ DOMAIN files' = DOMAIN files
             /\ \A p \in DOMAIN files :
                   /\ files'[p].path = files[p].path
                   /\ files'[p].size = files[p].size
                   /\ files'[p].flags = files[p].flags]_vars

(***************************************************************************)
(* Readers among writers, under the concurrent specification.              *)
(***************************************************************************)
\* The contents that a completed save of the concurrent specification has
\* stored or can store.
SavedContents == {OldContent} \cup {c.content : c \in ConcContents}

\* C20: the bytes that the content stream of a record returned by read has
\* delivered when it closes are the content of one completed save, and as
\* many as the size of the record, whatever save or delete started after
\* the call of read (no save of the path being in progress at the call).
C20_ReadIsolation ==
    \A o \in DOMAIN ops :
        (ops[o].kind = "read" /\ ~ops[o].duringSave
         /\ ops[o].result.tag = "file" /\ ops[o].stream = "closed")
        => /\ ops[o].out \in SavedContents
           /\ Len(ops[o].out) = ops[o].result.size

(***************************************************************************)
(* The overshoot of the size cap, under the serial specification.          *)
(***************************************************************************)
\* C21: the size recorded by a save that returned a record is above its
\* maxFileSizeBytes by at most ChunkSize - 1 bytes.
C21_CapOvershoot ==
    \A o \in DOMAIN ops :
        Returned(o) => ops[o].result.size <= ops[o].maxSize + ChunkSize - 1

(***************************************************************************)
(* The order of the writes of one delete, under the serial deletes.        *)
(***************************************************************************)
\* The chunks of its URI that were stored when call o was made and are not
\* stored any more.
RemovedChunks(o) == ops[o].idxAtCall \ ChunkIdx(Uri(ops[o]))

\* Call o is a delete that has put its marker and not yet deleted it.
DeleteMarked(o) ==
    ops[o].kind = "delete" /\ ops[o].pc \in {"d_marker", "d_file", "d_list", "d_chunk"}

\* C22: a delete puts the marker, deletes the file record, deletes the
\* chunks, deletes the marker, in this order: while it has removed a chunk
\* and not yet the marker the record is absent and the marker present, and
\* at every step from its marker put on there is a marker for the path or
\* nothing stored for it.
C22_DeleteOrdering ==
    \A o \in DOMAIN ops :
        /\ (DeleteMarked(o) /\ RemovedChunks(o) # {})
           => /\ ops[o].path \notin DOMAIN files
              /\ Uri(ops[o]) \in DOMAIN unresolved
        /\ (ops[o].kind = "delete" /\ ops[o].wroteKv /\ Running(ops[o]))
           => \/ Uri(ops[o]) \in DOMAIN unresolved
              \/ /\ ops[o].path \notin DOMAIN files
                 /\ ChunkIdx(Uri(ops[o])) = {}

\* A delete of a file of several chunks has removed one chunk and not the
\* others.
C22_Witness ==
    \E o \in DOMAIN ops :
        /\ DeleteMarked(o)
        /\ RemovedChunks(o) # {}
        /\ ChunkIdx(Uri(ops[o])) # {}

(***************************************************************************)
(* The order of the writes of one save, under the serial specification.    *)
(***************************************************************************)
\* Call o is a save that has started and not returned.
SaveRunning(o) == ops[o].kind = "save" /\ ops[o].wroteKv /\ Running(ops[o])

\* C23: a save puts the marker before its first chunk, puts the file record
\* only after its last chunk and after the retraction of the stale tail, and
\* deletes the marker only after the record put; at every step of a save on
\* a path that had nothing, chunks come with a marker or with the record.
C23_SaveOrdering ==
    \A o \in DOMAIN ops :
        SaveRunning(o) =>
            LET uri == Uri(ops[o])
            IN /\ (ops[o].totalCount >= 1 /\ ops[o].pc \in {"s_chunk", "s_retract"})
                  => uri \in DOMAIN unresolved
               /\ ops[o].pc \in {"s_file", "s_end"}
                  => /\ ops[o].path \in DOMAIN files
                     /\ files[ops[o].path].size = ops[o].sizeBytes
                     /\ ChunkIdx(uri) = 1..ops[o].totalCount
               /\ uri \notin DOMAIN unresolved => ops[o].pc = "s_end"
               /\ (ops[o].idxAtCall = {} /\ ChunkIdx(uri) # {})
                  => (uri \in DOMAIN unresolved \/ ops[o].path \in DOMAIN files)

\* A save over a file that had chunks beyond the ones it wrote has put its
\* record and deleted its marker.
C23_Witness ==
    \E o \in DOMAIN ops :
        /\ SaveRunning(o)
        /\ ops[o].pc = "s_end"
        /\ ops[o].totalCount >= 1
        /\ \E i \in ops[o].idxAtCall : i > ops[o].totalCount

(***************************************************************************)
(* The way back to idle, with KV calls that fail.                          *)
(***************************************************************************)
\* The event loop runs every continuation that is ready, the delete of a
\* catch block included.
FairSpecKv ==
    /\ SpecKv
    /\ WF_vars(\E o \in FailOpIds : KvStep(o))
    /\ WF_vars(\E o, d \in FailOpIds : NextSlot(d) /\ SaveCompensate(o, d))

\* C24: a URI that is in the saving map or in the deleting map leaves it,
\* whether the KV calls succeed or fail.
C24_EventuallyIdle ==
    \A p \in Paths :
        /\ fileIsSaving(pathToURIComponent(p)) ~> ~fileIsSaving(pathToURIComponent(p))
        /\ fileIsDeleting(pathToURIComponent(p)) ~> ~fileIsDeleting(pathToURIComponent(p))

(***************************************************************************)
(* deleteDir (479-528): a scan of the file records under the prefix with   *)
(* pagedListIterator, and for each entry an awaited delete of its path,    *)
(* which runs in a slot of its own.                                        *)
(***************************************************************************)
ListResult == [NoResult EXCEPT !.tag = "list"]

\* Lines 480-481: the defaults, `await validateAccess`.
RmDirCall(o, in) ==
    /\ ops[o].pc = "idle"
    /\ ops' = [ops EXCEPT ![o] = [NewOp(o, "deleteDir", in) EXCEPT !.pc = "x_validate"]]
    /\ UNCHANGED <<files, chunks, unresolved, savingFiles, deletingFiles, clientsReqsMap>>

\* Lines 482-492.
RmDirForbidden(o) ==
    /\ ops[o].pc = "x_validate"
    /\ ~ops[o].access
    /\ ops' = [ops EXCEPT ![o].pc = "done", ![o].got = <<ErrorResult("Forbidden")>>,
                          ![o].result = ListResult]
    /\ UNCHANGED <<files, chunks, unresolved, savingFiles, deletingFiles, clientsReqsMap>>

\* Lines 494-505: the first kv.list of the prefix.
RmDirScan(o) ==
    /\ ops[o].pc = "x_validate"
    /\ ops[o].access
    /\ ops' = [ops EXCEPT ![o].pc = "x_loop", ![o].iter = listFiles(ops[o].path, <<>>)]
    /\ UNCHANGED <<files, chunks, unresolved, savingFiles, deletingFiles, clientsReqsMap>>

\* entries.next() has returned `limit` entries: done, with its cursor;
\* pagedListIterator (138-147) lists again from that cursor.
RmDirRelist(o) ==
    /\ ops[o].pc = "x_loop"
    /\ ops[o].kvCount >= maxPageSize
    /\ ops' = [ops EXCEPT ![o].kvCount = 0,
                          ![o].iter = listFiles(ops[o].path, <<ops[o].lastKey>>)]
    /\ UNCHANGED <<files, chunks, unresolved, savingFiles, deletingFiles, clientsReqsMap>>

\* An entry (503-520): `this.delete({...options, path: entry.key.slice(2)})`
\* starts in slot d, and deleteDir awaits it.
RmDirEntry(o, d) ==
    /\ ops[o].pc = "x_loop"
    /\ ops[o].kvCount < maxPageSize
    /\ ops[o].iter # <<>>
    /\ d # o
    /\ ops[d].pc = "idle"
    /\ LET f  == Head(ops[o].iter)
           in == Input(f.key, NoContent,
                       [clientId |-> ops[o].clientId, maxReqs |-> ops[o].maxReqs],
                       ops[o].maxSize, ops[o].access)
       IN ops' = [ops EXCEPT ![o] = [@ EXCEPT !.pc = "x_wait",
                                              !.iter = Tail(ops[o].iter),
                                              !.kvCount = @ + 1,
                                              !.lastKey = f.key],
                             ![d] = [DeleteEntry(d, in) EXCEPT !.parent = o]]
    /\ UNCHANGED <<files, chunks, unresolved, savingFiles, deletingFiles, clientsReqsMap>>

\* The delete of the entry has returned (521-525): its status, if it
\* returned one, is pushed.
RmDirCollect(o, d) ==
    /\ ops[o].pc = "x_wait"
    /\ ops[d].parent = o
    /\ ops[d].kind = "delete"
    /\ ops[d].pc = "done"
    /\ ops' = [ops EXCEPT ![o] = [@ EXCEPT !.pc = "x_loop",
                                           !.got = IF ops[d].result = VoidResult
                                                   THEN @
                                                   ELSE Append(@, ops[d].result)],
                          ![d] = IdleOp]
    /\ UNCHANGED <<files, chunks, unresolved, savingFiles, deletingFiles, clientsReqsMap>>

\* entries.next() finds the range exhausted; line 527 returns the statuses.
RmDirEnd(o) ==
    /\ ops[o].pc = "x_loop"
    /\ ops[o].kvCount < maxPageSize
    /\ ops[o].iter = <<>>
    /\ ops' = [ops EXCEPT ![o].pc = "done", ![o].result = ListResult]
    /\ UNCHANGED <<files, chunks, unresolved, savingFiles, deletingFiles, clientsReqsMap>>

(***************************************************************************)
(* One deleteDir of a directory of 0..MaxDirFiles files (slot 1, its       *)
(* deletes in slot 2) and one save of a file of the directory (slot 3).    *)
(***************************************************************************)
RmDirClients == {DefaultClient, [clientId |-> 7, maxReqs |-> 1]}

RmDirInputs == {Input(DirPath, NoContent, cl, Unlimited, a) :
                   cl \in RmDirClients, a \in BOOLEAN}

RmDirSaveInputs ==
    {Input(DirPath \o <<DirNames[1]>>, [content |-> <<4>>, ckind |-> "bytes"],
           cl, Unlimited, TRUE) : cl \in RmDirClients}

InitRmDir ==
    /\ \E n \in 0..MaxDirFiles :
          /\ files = DirStore(n).files
          /\ chunks = DirStore(n).chunks
    /\ unresolved = EmptyMap
    /\ savingFiles = EmptyMap
    /\ deletingFiles = EmptyMap
    /\ clientsReqsMap = EmptyMap
    /\ ops = [o \in 1..3 |-> IdleOp]

RmDirStep(o) ==
    \/ RmDirForbidden(o)
    \/ RmDirScan(o)
    \/ RmDirRelist(o)
    \/ RmDirEnd(o)
    \/ DeleteStart(o)
    \/ DeleteOverCap(o)
    \/ DeleteRejected(o)
    \/ DeleteAdmit(o)
    \/ DeleteScan(o)
    \/ DeleteListed(o)
    \/ DeleteChunk(o)
    \/ DeleteEnd(o)
    \/ SaveStart(o)
    \/ SaveOverCap(o)
    \/ SaveRejected(o)
    \/ SaveAdmit(o)
    \/ SaveChunk(o)
    \/ SavePutFile(o)
    \/ SaveFinalize(o)
    \/ SaveEnd(o)

NextRmDir ==
    \/ \E in \in RmDirInputs : RmDirCall(1, in)
    \/ RmDirEntry(1, 2)
    \/ RmDirCollect(1, 2)
    \/ \E in \in RmDirSaveInputs : SaveCall(3, in)
    \/ \E o \in 1..3 : RmDirStep(o)

SpecRmDir == InitRmDir /\ [][NextRmDir]_vars

\* The paths the directory can hold, and the two paths outside it.
DirFiles == {DirPath \o <<DirNames[i]>> : i \in 1..Len(DirNames)}

Outside == {PathA, DirPath}

DirConcInputs ==
    {Input(DirPath, NoContent, DefaultClient, Unlimited, a)
        @@ [pagination |-> pg] : a \in BOOLEAN, pg \in BOOLEAN}

DirConcSave ==
    Input(DirPath \o <<DirNames[1]>>, [content |-> OldContent, ckind |-> "bytes"],
          DefaultClient, Unlimited, TRUE)

DirConcDelete ==
    Input(DirPath \o <<DirNames[2]>>, NoContent, DefaultClient, Unlimited, TRUE)

InitDirConc ==
    /\ \E n \in 0..MaxDirFiles :
          /\ files = DirStore(n).files
          /\ chunks = DirStore(n).chunks
    /\ unresolved = EmptyMap
    /\ savingFiles = EmptyMap
    /\ deletingFiles = EmptyMap
    /\ clientsReqsMap = EmptyMap
    /\ ops = [o \in 1..3 |-> IdleOp]

DirConcStep(o) ==
    \/ DirStep(o)
    \/ SaveStart(o)
    \/ SaveAdmit(o)
    \/ SaveChunk(o)
    \/ SavePutFile(o)
    \/ SaveFinalize(o)
    \/ SaveEnd(o)
    \/ DeleteStart(o)
    \/ DeleteAdmit(o)
    \/ DeleteScan(o)
    \/ DeleteListed(o)
    \/ DeleteChunk(o)
    \/ DeleteEnd(o)

NextDirConc ==
    \/ \E in \in DirConcInputs : DirCall(1, in)
    \/ SaveCall(2, DirConcSave)
    \/ DeleteCall(3, DirConcDelete)
    \/ \E o \in 1..3 : DirConcStep(o)

SpecDirConc == InitDirConc /\ [][NextDirConc]_vars

\* What an entry of the array of readDir adds to the size: the size of a
\* record, the progress of a status "saving", nothing for a status "deleting".
Counted(e) ==
    IF e.tag = "file" THEN e.size
    ELSE IF e.status = "saving" THEN e.size
    ELSE 0

RECURSIVE SumCounted(_)
SumCounted(es) == IF es = <<>> THEN 0 ELSE Counted(Head(es)) + SumCounted(Tail(es))

\* C26: the size readDir returns is the sum over the entries it returns of
\* the record's size, or the saving progress, or 0 for a deleting entry; an
\* entry is pushed as a status exactly when its URI is in flight at that
\* moment, with the progress of that moment.
C26_DirSize ==
    /\ [](\A o \in DOMAIN ops :
            (ops[o].kind = "readDir" /\ ops[o].access /\ ops[o].pc = "done")
            => ops[o].result.size = SumCounted(ops[o].got))
    /\ [][\A o \in DOMAIN ops :
            (ops[o].kind = "readDir" /\ ops[o].pc = "l_loop"
             /\ Len(ops'[o].got) = Len(ops[o].got) + 1)
            => LET uri == pathToURIComponent(ops'[o].lastKey)
                   e   == ops'[o].got[Len(ops'[o].got)]
               IN /\ (fileIsSaving(uri) \/ fileIsDeleting(uri)) <=> e.tag = "status"
                  /\ e.tag = "file" <=> ~(fileIsSaving(uri) \/ fileIsDeleting(uri))
                  /\ fileIsSaving(uri)
                     => e.status = "saving" /\ e.size = savingFiles[uri]
                  /\ (~fileIsSaving(uri) /\ fileIsDeleting(uri))
                     => e.status = "deleting"]_vars

\* A readDir has returned an array with a record, a status "saving" with
\* progress and a status "deleting".
C26_Witness ==
    /\ ops[1].kind = "readDir" /\ ops[1].pc = "done" /\ ops[1].access
    /\ \E i, j, k \in 1..Len(ops[1].got) :
          /\ ops[1].got[i].tag = "file"
          /\ ops[1].got[j].tag = "status" /\ ops[1].got[j].status = "saving"
          /\ ops[1].got[j].size > 0
          /\ ops[1].got[k].tag = "status" /\ ops[1].got[k].status = "deleting"

(***************************************************************************)
(* pagedListIterator (128-161) on its own, over the chunk keys of one URI: *)
(* a prefix selector (start = 0) or a range selector from a start index,   *)
(* with a page limit.  The list iterator of the store returns at most      *)
(* `limit` entries, then answers done and keeps as its cursor the key of   *)
(* the last entry it returned; it answers done with the empty cursor when  *)
(* the selector has no more entries.                                       *)
(***************************************************************************)
\* A resumed list that returns the cursor's entry again.
AfterCursorIncl(i, cursor) == cursor = <<>> \/ i >= cursor[1][2]

\* The entries a list resumed from a cursor returns: those after its key.
AfterCursor(i, cursor) == cursor = <<>> \/ i > cursor[1][2]

\* kv.list(selector, {limit, cursor}) (133, 146).
listChunks(uri, start, cursor) ==
    Entries(uri, {i \in ChunkIdx(uri) :
                     /\ start # 0 => InRetractRange(i, start)
                     /\ AfterCursor(i, cursor)})

\* Line 133: the first kv.list.
PagerCall(o, in) ==
    /\ ops[o].pc = "idle"
    /\ ops' = [ops EXCEPT ![o] =
                  [NewOp(o, "pager", in) EXCEPT
                      !.pc = "p_loop", !.limit = in.limit, !.start = in.start,
                      !.iter = listChunks(pathToURIComponent(in.path), in.start, <<>>)]]
    /\ UNCHANGED <<files, chunks, unresolved, savingFiles, deletingFiles, clientsReqsMap>>

\* entries.next() answers done after `limit` entries, with a cursor
\* (137-147): list again from the cursor.
PagerRelist(o) ==
    /\ ops[o].pc = "p_loop"
    /\ ops[o].kvCount >= ops[o].limit
    /\ ops' = [ops EXCEPT ![o].kvCount = 0,
                          ![o].iter = listChunks(Uri(ops[o]), ops[o].start,
                                                 <<ops[o].lastKey>>)]
    /\ UNCHANGED <<files, chunks, unresolved, savingFiles, deletingFiles, clientsReqsMap>>

\* entries.next() returns an entry (148-157): every limit-th entry gets the
\* cursor of the list iterator, and the entry is yielded.
PagerYield(o) ==
    /\ ops[o].pc = "p_loop"
    /\ ops[o].kvCount < ops[o].limit
    /\ ops[o].iter # <<>>
    /\ LET f      == Head(ops[o].iter)
           tagged == ops[o].pgCount + 1 = ops[o].limit
       IN ops' = [ops EXCEPT ![o] =
                     [@ EXCEPT !.iter = Tail(ops[o].iter),
                               !.kvCount = @ + 1,
                               !.lastKey = f.key,
                               !.pgCount = IF tagged THEN 0 ELSE @ + 1,
                               !.got = Append(@, [key |-> f.key, value |-> f.value,
                                                  cursor |-> IF tagged THEN <<f.key>>
                                                             ELSE <<>>])]]
    /\ UNCHANGED <<files, chunks, unresolved, savingFiles, deletingFiles, clientsReqsMap>>

\* entries.next() answers done with the empty cursor (137-139): the
\* generator returns.
PagerEnd(o) ==
    /\ ops[o].pc = "p_loop"
    /\ ops[o].kvCount < ops[o].limit
    /\ ops[o].iter = <<>>
    /\ ops' = [ops EXCEPT ![o].pc = "done"]
    /\ UNCHANGED <<files, chunks, unresolved, savingFiles, deletingFiles, clientsReqsMap>>

MaxEntries == 6

MaxLimit == 3

PagerInputs ==
    {Input(PathA, NoContent, DefaultClient, Unlimited, TRUE)
        @@ [limit |-> l, start |-> st] : l \in 1..MaxLimit, st \in 0..3}

InitPager ==
    /\ files = EmptyMap
    /\ \E n \in 0..MaxEntries :
          chunks = [k \in {<<pathToURIComponent(PathA), i>> : i \in 1..n}
                          \cup {<<pathToURIComponent(PathB), 1>>} |-> <<k[2]>>]
    /\ unresolved = EmptyMap
    /\ savingFiles = EmptyMap
    /\ deletingFiles = EmptyMap
    /\ clientsReqsMap = EmptyMap
    /\ ops = <<IdleOp>>

NextPager ==
    \/ \E in \in PagerInputs : PagerCall(1, in)
    \/ PagerRelist(1)
    \/ PagerYield(1)
    \/ PagerEnd(1)

SpecPager == InitPager /\ [][NextPager]_vars

\* The consumer of the generator asks for the next entry until it is done.
FairSpecPager == SpecPager /\ WF_vars(PagerRelist(1) \/ PagerYield(1) \/ PagerEnd(1))

\* The keys that match the selector of the call, in key order.
Matching(r) ==
    SortedSeq({i \in ChunkIdx(Uri(r)) : r.start # 0 => (i >= r.start /\ i < Unlimited)})

\* C27: pagedListIterator yields the matching entries once each in key
\* order and then ends; the entries it tags with a cursor are those at the
\* positions that are multiples of the limit; it ends only when a list has
\* no more entries.
C27_PagedList ==
    /\ [](ops[1].kind = "pager"
          => LET m == Matching(ops[1])
                 g == ops[1].got
             IN /\ Len(g) <= Len(m)
                /\ \A i \in 1..Len(g) :
                      /\ g[i].key = <<Uri(ops[1]), m[i]>>
                      /\ g[i].value = chunks[g[i].key]
                      /\ (g[i].cursor # <<>>) <=> (i % ops[1].limit = 0)
                      /\ g[i].cursor # <<>> => g[i].cursor = <<g[i].key>>
                /\ ops[1].pc = "done" => Len(g) = Len(m))
    /\ (ops[1].pc = "p_loop") ~> (ops[1].pc = "done")

\* The generator has ended after yielding a number of entries that is a
\* multiple of the limit, at least two pages.
C27_Witness ==
    /\ ops[1].kind = "pager" /\ ops[1].pc = "done"
    /\ Len(ops[1].got) >= 2 * ops[1].limit
    /\ Len(ops[1].got) % ops[1].limit = 0
    /\ ops[1].limit > 1

(***************************************************************************)
(* Orphans, under the specification of the failing save.                   *)
(***************************************************************************)
\* No call on the path is between its call and its return.
NotInFlight(p) ==
    /\ ~fileIsSaving(pathToURIComponent(p))
    /\ ~fileIsDeleting(pathToURIComponent(p))
    /\ \A o \in DOMAIN ops : ops[o].path = p => ~Running(ops[o])

\* C28: when no save or delete of a path is in flight and chunks are stored
\* for its URI, its file record or an unresolved marker is stored too.
C28_OrphanCoverage ==
    \A p \in Paths :
        (NotInFlight(p) /\ ChunkIdx(pathToURIComponent(p)) # {})
        => \/ p \in DOMAIN files
           \/ pathToURIComponent(p) \in DOMAIN unresolved

(***************************************************************************)
(* Cap rejections, under the concurrent specification.                     *)
(***************************************************************************)
\* C29: a save or delete is rejected for the concurrency cap only when, at
\* its check, maxClientIdConcurrentReqs other calls of its client are past
\* their own check and still running.
C29_NoSpuriousRejection ==
    [][\A o \in DOMAIN ops :
          (ops[o].pc \in {"s_marker", "d_marker"}
           /\ ops'[o].pc \in {"s_rejecting", "d_rejecting"})
          => Cardinality({o2 \in (DOMAIN ops) \ {o} :
                             /\ ops[o2].clientId = ops[o].clientId
                             /\ Admitted(ops[o2])}) >= ops[o].maxReqs]_vars

(***************************************************************************)
(* The two savers side by side: the same bytes saved as a byte array or a  *)
(* string on PathA (slot 1) and as a byte stream on PathB (slot 2), with   *)
(* the same maxFileSizeBytes, on an empty store.                           *)
(***************************************************************************)
EquivCaps == {1, ChunkSize, ChunkSize + 1, Unlimited}

EquivInputs ==
    {Input(PathA, c, DefaultClient, m, TRUE) :
        c \in {x \in SeqContents : x.ckind # "stream"}, m \in EquivCaps}

\* The call of slot 2: the bytes of the call of slot 1, as a stream.
AsStream(r) ==
    Input(PathB, [content |-> Bytes(r), ckind |-> "stream"], DefaultClient,
          r.maxSize, TRUE)

InitEquiv ==
    /\ files = EmptyMap
    /\ chunks = EmptyMap
    /\ unresolved = EmptyMap
    /\ savingFiles = EmptyMap
    /\ deletingFiles = EmptyMap
    /\ clientsReqsMap = EmptyMap
    /\ ops = [o \in 1..2 |-> IdleOp]

EquivStep(o) ==
    \/ SaveStart(o)
    \/ SaveAdmit(o)
    \/ SaveChunk(o)
    \/ SavePutFile(o)
    \/ SaveFinalize(o)
    \/ SaveEnd(o)

NextEquiv ==
    \/ \E in \in EquivInputs : SaveCall(1, in)
    \/ ops[1].pc = "done" /\ SaveCall(2, AsStream(ops[1]))
    \/ \E o \in 1..2 : EquivStep(o)

SpecEquiv == InitEquiv /\ [][NextEquiv]_vars

\* C30: the save of a byte array (or string) and the save of a stream of the
\* same bytes, with the same size cap, return the same size and flags and
\* store the same chunk indices with the same values.
C30_SaverEquivalence ==
    (Returned(1) /\ Returned(2))
    => /\ ops[1].result.size = ops[2].result.size
       /\ ops[1].result.flags = ops[2].result.flags
       /\ ChunkIdx(Uri(ops[1])) = ChunkIdx(Uri(ops[2]))
       /\ \A i \in ChunkIdx(Uri(ops[1])) \cap ChunkIdx(Uri(ops[2])) :
             chunks[<<Uri(ops[1]), i>>] = chunks[<<Uri(ops[2]), i>>]

====
